---- MODULE Spec2Model ----
(***************************************************************************)
(* Model of the Visier aggregate query tool:                               *)
(*   - run_multi_metric.main      (the multi-metric batch)                  *)
(*   - query.main / scripts/run_query.main (the CLI pipelines)              *)
(*   - query.validate_payload_structure / run_query.validate_payload        *)
(*   - aggregate_query_vanilla.convert_vanilla_response_to_dataframe        *)
(* JSON mappings are functions with a string domain, JSON lists are         *)
(* sequences; where the code inspects the type of a value the value is a    *)
(* tagged record [t |-> type, v |-> content].                               *)
(***************************************************************************)
EXTENDS Integers, Sequences, FiniteSets, TLC

VARIABLES
    \* the payload validators
    val_payload,    \* the payload handed to the validators
    result_structure,   \* what query.validate_payload_structure(payload) did
    result_run,     \* what run_query.validate_payload(payload) did
    \* run_multi_metric.main
    metrics,        \* config["metrics"]
    batch_pc,       \* position in main
    bi,             \* number of loop iterations started (enumerate index)
    dataframes,     \* the list of tagged tables
    dispatched,     \* metric ids handed to execute_vanilla_aggregate_query, in order
    outcomes,       \* what each dispatched sub-query did
    merged,         \* pd.concat(dataframes), <<>> before the merge
    out_written,    \* merged.to_csv happened
    batch_error,    \* index of the sub-query whose exception was reported, 0 if none
    batch_exit,     \* exit status of the process, -1 while running
    \* convert_vanilla_response_to_dataframe
    response,       \* the response without its cells: error, axes, source
    has_cells,      \* the response has a "cells" key
    cells_len,      \* len(cells)
    metric_hint,    \* the metric_id argument
    metric_id,      \* the local metric_id
    dec_pc,         \* position in the function
    dec_exc,        \* the exception raised, if any
    dimension_names,    \* the column name of every axis
    measures_axis_idx,  \* index of the last axis classified as Measures, -1 if none
    axis_positions, \* per axis, the labels of its positions
    cells_done,     \* number of cells the row loop has consumed
    cell,           \* the cell of the current iteration
    row,            \* the row built from it, as <<column, value>> pairs in insertion order
    nrows,          \* len(rows)
    columns,        \* the columns of pd.DataFrame(rows): first appearance order
    again,          \* calls the caller will still make with the same arguments
    calls,          \* calls that have ended
    cells,          \* response["cells"] as far as read, kept when decoded again
    first_result,   \* what the first call returned or raised
    \* query.main and scripts/run_query.main
    script,         \* which main runs
    args,           \* the parsed command line
    cli_payload,    \* the payload file's content
    cli_pc,         \* position in main
    validation,     \* what the validator call did, NotRun if it was not called
    creds_checked,  \* the credentials were read or checked
    sent,           \* execute_vanilla_aggregate_query(payload=payload) was called
    cli_exit,       \* exit status, -1 while running
    \* the query builders of aggregate_query_vanilla.py
    build_args,     \* the arguments assembled for build_vanilla_aggregate_query
    build_pc,       \* "assembling" until the builder is called, then "built"
    built           \* what build_vanilla_aggregate_query returned or raised

batchVars == <<metrics, batch_pc, bi, dataframes, dispatched, outcomes, merged,
               out_written, batch_error, batch_exit>>

valVars == <<val_payload, result_structure, result_run>>

decVars == <<response, has_cells, cells_len, metric_hint, metric_id, dec_pc, dec_exc,
             dimension_names, measures_axis_idx, axis_positions, cells_done, cell,
             row, nrows, columns, again, calls, cells, first_result>>

callVars == <<again, calls, first_result>>

cliVars == <<script, args, cli_payload, cli_pc, validation, creds_checked, sent,
             cli_exit>>

buildVars == <<build_args, build_pc, built>>

vars == <<valVars, batchVars, decVars, cliVars, buildVars>>

----------------------------------------------------------------------------
(* Bounds *)
MaxMetrics == 3
MaxRows == 2
MaxQueryAxes == 2
MaxFilters == 1
MaxAxes == 2
MaxCells == 2

\* The result of a validator that was not called.
NotRun == [exc |-> "not_run", ok |-> FALSE, errors |-> <<>>]

----------------------------------------------------------------------------
(* run_multi_metric.py *)

MetricIds == {"headcount", "exits"}

\* One entry of config["metrics"]: "metric" is required, "label" optional.
MetricEntries ==
    {[metric |-> m] : m \in MetricIds}
        \cup {[metric |-> m, label |-> "Label"] : m \in MetricIds}

SeqsUpTo(S, n) == UNION {[1..k -> S] : k \in 0..n}

\* What one pass through the try block can do: the transport raises, the
\* decoder raises, or a table of n rows comes back (n = 0: df.empty).
SubQueryOutcomes ==
    {[kind |-> "http_error", nrows |-> 0], [kind |-> "decode_error", nrows |-> 0]}
        \cup {[kind |-> "table", nrows |-> n] : n \in 0..MaxRows}

IsError(o) == o.kind \in {"http_error", "decode_error"}

\* The label without line 100: always the metric id.
EntryLabel_metric_id(entry) == entry.metric

\* entry.get("label", metric_id)
EntryLabel(entry) ==
    IF "label" \in DOMAIN entry THEN entry.label ELSE entry.metric

\* An insert that puts the new column behind the others.
InsertColumn_last(seq, x) == Append(seq, x)

\* df.insert(0, ...): the new column is the first one.
InsertColumn(seq, x) == <<x>> \o seq

\* The columns of the table a sub-query's response decodes to.
DecodedColumns == <<"Measures", "Country", "value">>

\* df.insert(0, "metric_id", ...); df.insert(0, "metric", ...): the rows of one
\* sub-query's table, each tagged with the label and the metric id, and the
\* columns of that table.
TaggedTable(entry, k, n) ==
    [r \in 1..n |-> [metric |-> EntryLabel(entry), metric_id |-> entry.metric,
                     query |-> k, row |-> r,
                     columns |-> InsertColumn(InsertColumn(DecodedColumns, "metric_id"),
                                              "metric")]]

RECURSIVE Concat(_)
Concat(tables) ==
    IF tables = <<>> THEN <<>> ELSE Head(tables) \o Concat(Tail(tables))

BatchFail ==
    /\ batch_pc' = "exit"
    /\ batch_exit' = 1

\* lines 67-72: the config file must exist.
CheckConfig ==
    /\ batch_pc = "check_config"
    /\ \E exists \in BOOLEAN :
        IF exists
        THEN batch_pc' = "check_credentials" /\ batch_exit' = batch_exit
        ELSE BatchFail
    /\ UNCHANGED <<metrics, bi, dataframes, dispatched, outcomes, merged, out_written,
                   batch_error>>
    /\ UNCHANGED <<valVars, decVars, cliVars, buildVars>>

\* lines 74-76: validate_credentials().
CheckCredentials ==
    /\ batch_pc = "check_credentials"
    /\ \E ok \in BOOLEAN :
        IF ok
        THEN batch_pc' = "load_config" /\ batch_exit' = batch_exit
        ELSE BatchFail
    /\ UNCHANGED <<metrics, bi, dataframes, dispatched, outcomes, merged, out_written,
                   batch_error>>
    /\ UNCHANGED <<valVars, decVars, cliVars, buildVars>>

\* lines 78-86: load the config; no metrics is an error.
LoadConfig ==
    /\ batch_pc = "load_config"
    /\ IF metrics = <<>>
       THEN BatchFail
       ELSE batch_pc' = "loop" /\ batch_exit' = batch_exit
    /\ UNCHANGED <<metrics, bi, dataframes, dispatched, outcomes, merged, out_written,
                   batch_error>>
    /\ UNCHANGED <<valVars, decVars, cliVars, buildVars>>

\* The loop body with the except clause skipping the entry instead of exiting.
SubQueryStep_skip_on_error(o) ==
    LET entry == metrics[bi + 1] IN
    /\ bi' = bi + 1
    /\ dispatched' = Append(dispatched, entry.metric)
    /\ outcomes' = Append(outcomes, o)
    /\ UNCHANGED <<batch_pc, batch_exit>>
    /\ batch_error' = IF IsError(o) THEN bi + 1 ELSE batch_error
    /\ dataframes' =
        IF IsError(o) \/ o.nrows = 0
        THEN dataframes
        ELSE Append(dataframes, TaggedTable(entry, bi + 1, o.nrows))

\* lines 87-110: one iteration of the loop over the metrics, for the outcome o
\* of the try block.
SubQueryStep(o) ==
    LET entry == metrics[bi + 1] IN
    /\ bi' = bi + 1
    /\ dispatched' = Append(dispatched, entry.metric)
    /\ outcomes' = Append(outcomes, o)
    /\ IF IsError(o)
       THEN /\ BatchFail
            /\ batch_error' = bi + 1
            /\ UNCHANGED dataframes
       ELSE /\ UNCHANGED <<batch_pc, batch_exit, batch_error>>
            /\ dataframes' =
                IF o.nrows = 0
                THEN dataframes
                ELSE Append(dataframes, TaggedTable(entry, bi + 1, o.nrows))

SubQuery ==
    /\ batch_pc = "loop"
    /\ bi < Len(metrics)
    /\ \E o \in SubQueryOutcomes : SubQueryStep(o)
    /\ UNCHANGED <<metrics, merged, out_written>>
    /\ UNCHANGED <<valVars, decVars, cliVars, buildVars>>

\* The merge without the "no data returned from any query" exit.
Merge_no_empty_check ==
    /\ batch_pc = "loop"
    /\ bi = Len(metrics)
    /\ batch_pc' = "exit"
    /\ merged' = Concat(dataframes)
    /\ out_written' = TRUE
    /\ batch_exit' = 0
    /\ UNCHANGED <<metrics, bi, dataframes, dispatched, outcomes, batch_error>>
    /\ UNCHANGED <<valVars, decVars, cliVars, buildVars>>

\* lines 112-125: after the loop, merge and write.
Merge ==
    /\ batch_pc = "loop"
    /\ bi = Len(metrics)
    /\ batch_pc' = "exit"
    /\ IF dataframes = <<>>
       THEN /\ batch_exit' = 1
            /\ UNCHANGED <<merged, out_written>>
       ELSE /\ merged' = Concat(dataframes)
            /\ out_written' = TRUE
            /\ batch_exit' = 0
    /\ UNCHANGED <<metrics, bi, dataframes, dispatched, outcomes, batch_error>>
    /\ UNCHANGED <<valVars, decVars, cliVars, buildVars>>

BatchNext == CheckConfig \/ CheckCredentials \/ LoadConfig \/ SubQuery \/ Merge


\* The tables of all dispatched sub-queries, in config order (an empty table
\* has no rows).
AllTables ==
    [k \in 1..Len(outcomes) |-> TaggedTable(metrics[k], k, outcomes[k].nrows)]

ErrorIndexes == {k \in 1..Len(outcomes) : IsError(outcomes[k])}

\* C3: the sub-queries are dispatched one at a time in config order, and the
\* first failing sub-query (transport or decode error) ends the batch: it is
\* the last one dispatched, nothing is merged and no output is written.
C3_FailFast ==
    /\ Len(dispatched) = bi
    /\ Len(dispatched) <= Len(metrics)
    /\ \A k \in 1..Len(dispatched) : dispatched[k] = metrics[k].metric
    /\ \A k \in ErrorIndexes :
        /\ k = Len(dispatched)
        /\ batch_pc = "exit"
        /\ batch_exit = 1
        /\ merged = <<>>
        /\ ~out_written

\* C3 witness: a sub-query failed after an earlier one had returned rows and
\* before the last one of the config was dispatched.
C3_Witness ==
    /\ ErrorIndexes # {}
    /\ dataframes # <<>>
    /\ Len(dispatched) < Len(metrics)
    /\ batch_pc = "exit"

BatchSucceeded ==
    /\ ErrorIndexes = {}
    /\ Len(outcomes) = Len(metrics)
    /\ batch_exit = 0
    /\ out_written
    /\ merged = Concat(AllTables)

BatchFailedWithFirstError ==
    /\ ErrorIndexes # {}
    /\ batch_error \in ErrorIndexes
    /\ \A k \in ErrorIndexes : batch_error <= k
    /\ batch_exit = 1
    /\ ~out_written
    /\ merged = <<>>

BatchFailedWithNoData ==
    /\ ErrorIndexes = {}
    /\ Len(outcomes) = Len(metrics)
    /\ \A k \in 1..Len(outcomes) : outcomes[k].nrows = 0
    /\ batch_error = 0
    /\ batch_exit = 1
    /\ ~out_written
    /\ merged = <<>>

\* The batch proper (the loop over the metrics) ran and the process ended.
BatchEnded == batch_pc = "exit" /\ outcomes # <<>>

\* C4 as stated: every run of the batch ends either with every sub-query
\* succeeded and the output being the concatenation of all tables, or failed
\* with the first encountered error; nothing else.
C4_Original ==
    BatchEnded => (BatchSucceeded \/ BatchFailedWithFirstError)

\* C4 amended: every run of the batch ends (a) with every sub-query succeeded,
\* at least one table non-empty, and the output being the concatenation of all
\* tables, or (b) failed with the first encountered error and no output, or
\* (c) with every sub-query succeeded but every table empty, in which case the
\* batch fails with "no data" and writes no output.
C4_AllOrNothing ==
    BatchEnded =>
        \/ BatchSucceeded /\ (\E k \in 1..Len(outcomes) : outcomes[k].nrows > 0)
        \/ BatchFailedWithFirstError
        \/ BatchFailedWithNoData

\* C4 witness: a batch of several sub-queries ended with output although one
\* of its tables was empty.
C4_Witness ==
    /\ BatchEnded
    /\ BatchSucceeded
    /\ Len(dataframes) >= 2
    /\ \E k \in 1..Len(outcomes) : outcomes[k].nrows = 0

\* The sub-queries that returned an empty table.
EmptyIndexes ==
    {k \in 1..Len(outcomes) : outcomes[k].kind = "table" /\ outcomes[k].nrows = 0}

\* The rows of the merged output that come from sub-query k.
MergedRowsOf(k) == {n \in 1..Len(merged) : merged[n].query = k}

\* C30: a sub-query that returns an empty table does not end the batch: the
\* loop goes on, and a batch without a failing sub-query dispatches every
\* entry.  The output that is written holds, in config order, all the rows of
\* every sub-query with a non-empty table and no other; every row has metric
\* (the label of the entry, the metric id without one) and metric_id as its
\* first two columns.  A batch whose sub-queries all return an empty table
\* exits with failure and writes nothing.
C30_EmptySkipped ==
    /\ (Len(outcomes) \in EmptyIndexes /\ Len(outcomes) < Len(metrics))
            => (batch_pc = "loop" /\ batch_exit = -1)
    /\ (batch_pc = "exit" /\ outcomes # <<>> /\ ErrorIndexes = {})
            => /\ Len(dispatched) = Len(metrics)
               /\ out_written <=> EmptyIndexes # 1..Len(outcomes)
               /\ batch_exit = IF out_written THEN 0 ELSE 1
    /\ ~out_written => merged = <<>>
    /\ out_written =>
        /\ \A k \in 1..Len(outcomes) : Cardinality(MergedRowsOf(k)) = outcomes[k].nrows
        /\ \A n \in 1..Len(merged) :
            /\ merged[n].query \in 1..Len(outcomes)
            /\ merged[n].metric_id = metrics[merged[n].query].metric
            /\ merged[n].metric =
                    IF "label" \in DOMAIN metrics[merged[n].query]
                    THEN metrics[merged[n].query].label
                    ELSE metrics[merged[n].query].metric
            /\ merged[n].columns[1] = "metric"
            /\ merged[n].columns[2] = "metric_id"
        /\ \A a, b \in 1..Len(merged) :
            a < b => \/ merged[a].query < merged[b].query
                     \/ merged[a].query = merged[b].query /\ merged[a].row < merged[b].row

\* The first sub-query returned an empty table, the following ones were
\* dispatched, and the output holds the rows of the second, tagged with its
\* label, before those of the last, tagged with its metric id.
C30_Witness ==
    /\ batch_pc = "exit"
    /\ out_written
    /\ Len(outcomes) = MaxMetrics
    /\ 1 \in EmptyIndexes
    /\ outcomes[2].nrows = MaxRows
    /\ "label" \in DOMAIN metrics[2]
    /\ "label" \notin DOMAIN metrics[MaxMetrics]
    /\ merged[1].metric = "Label"
    /\ merged[Len(merged)].metric = metrics[MaxMetrics].metric
    /\ merged[Len(merged)].query = MaxMetrics

----------------------------------------------------------------------------
(* JSON values as Python sees them.  A value is [t |-> type, v |-> content]  *)
(* with t one of "null", "num", "str", "list", "map"; "absent" marks a key   *)
(* that is not there when a mapping is built.                                *)

JNull == [t |-> "null", v |-> 0]
JNum(n) == [t |-> "num", v |-> n]
JStr(s) == [t |-> "str", v |-> s]
JList(s) == [t |-> "list", v |-> s]
JMap(f) == [t |-> "map", v |-> f]
Absent == [t |-> "absent", v |-> 0]

\* The mapping holding the pairs <<key, value>> whose value is not Absent.
MkMap(pairs) ==
    LET present == {p \in pairs : p[2].t # "absent"} IN
    JMap([k \in {p[1] : p \in present} |-> (CHOOSE p \in present : p[1] = k)[2]])

\* k is a substring of s.  The strings probed with `in` in this model have at
\* most one character and every key looked for has more.
Substr(k, s) == k = s

\* `k in x` raises TypeError: x is a number or None.
InRaises(x) == x.t \in {"num", "null"}

\* `k in x` for a mapping (a key), a list (an element) or a string (a substring).
InTrue(k, x) ==
    CASE x.t = "map" -> k \in DOMAIN x.v
      [] x.t = "list" -> \E n \in 1..Len(x.v) : x.v[n].t = "str" /\ x.v[n].v = k
      [] x.t = "str" -> Substr(k, x.v)
      [] OTHER -> FALSE

\* bool(x)
PyTruthy(x) ==
    CASE x.t = "null" -> FALSE
      [] x.t = "num" -> x.v # 0
      [] x.t = "str" -> x.v # ""
      [] x.t = "list" -> x.v # <<>>
      [] x.t = "map" -> DOMAIN x.v # {}

RECURSIVE SetToSeq(_)
SetToSeq(S) ==
    IF S = {} THEN <<>>
    ELSE LET e == CHOOSE e \in S : TRUE IN <<e>> \o SetToSeq(S \ {e})

\* iter(x) raises TypeError: x is a number or None.
IterRaises(x) == x.t \in {"num", "null"}

\* The items `for ... in x` visits: the elements of a list, the keys of a
\* mapping, the characters of a string (the strings iterated in this model
\* have at most one character).
PyIter(x) ==
    CASE x.t = "list" -> x.v
      [] x.t = "map" -> [n \in 1..Cardinality(DOMAIN x.v) |-> JStr(SetToSeq(DOMAIN x.v)[n])]
      [] x.t = "str" -> IF x.v = "" THEN <<>> ELSE <<JStr(x.v)>>
      [] OTHER -> <<>>

----------------------------------------------------------------------------
(* The payload validators.  A run of a validator either raises (exc is the   *)
(* exception) or returns its error list.                                     *)

Ok(errs) == [exc |-> "", errs |-> errs]
Raise(e) == [exc |-> e, errs |-> <<>>]
NoErrors == Ok(<<>>)

\* Statement a, then statement b: an exception in a ends the run.
Then(a, b) ==
    IF a.exc # "" THEN a
    ELSE IF b.exc # "" THEN Raise(b.exc)
    ELSE Ok(a.errs \o b.errs)

\* query.py lines 123-133
VALID_AXIS_KEYS ==
    <<"dimensionLevelSelection", "numericRanges", "dimensionMemberSelection",
      "memberMapSelection", "formula", "selectionConcept",
      "dimensionLeafMemberSelection", "dimensionDataMemberSelection",
      "dimensionLevelWithUncategorizedValueSelection">>

ValidAxisKeySet == {VALID_AXIS_KEYS[n] : n \in 1..Len(VALID_AXIS_KEYS)}

\* ', '.join(VALID_AXIS_KEYS)
ValidAxisKeysJoined ==
    "dimensionLevelSelection, numericRanges, dimensionMemberSelection, "
        \o "memberMapSelection, formula, selectionConcept, "
        \o "dimensionLeafMemberSelection, dimensionDataMemberSelection, "
        \o "dimensionLevelWithUncategorizedValueSelection"

MissingQueryMsg == "Missing 'query' key in payload"
AxisLabel(n) == "Axis " \o ToString(n)

\* query.py lines 104-114: the source rule of validate_payload_structure.
SourceRule(query) ==
    IF InRaises(query) THEN Raise("TypeError")
    ELSE IF ~InTrue("source", query) THEN Ok(<<"Missing 'source' in query">>)
    ELSE IF query.t # "map" THEN Raise("TypeError")
    ELSE LET source == query.v["source"] IN
        IF InRaises(source) THEN Raise("TypeError")
        ELSE IF ~InTrue("metric", source) /\ ~InTrue("metrics", source)
        THEN Ok(<<"Missing 'metric' or 'metrics' in source">>)
        ELSE IF InTrue("metrics", source)
        THEN IF source.t # "map" THEN Raise("AttributeError")
             ELSE LET m == source.v["metrics"] IN
                IF m.t # "map" THEN Raise("AttributeError")
                ELSE LET cols == IF "columns" \in DOMAIN m.v
                                 THEN m.v["columns"] ELSE JList(<<>>) IN
                    IF ~PyTruthy(cols)
                    THEN Ok(<<"'source.metrics.columns' is empty">>)
                    ELSE NoErrors
        ELSE NoErrors

\* query.py lines 141-144 / run_query.py lines 94-97: the dimension of a
\* dimensionLevelSelection, for the axis labelled n.
DimensionCheck(dls, n) ==
    IF InRaises(dls) THEN Raise("TypeError")
    ELSE IF ~InTrue("dimension", dls)
    THEN Ok(<<AxisLabel(n) \o ": Missing 'dimension' in dimensionLevelSelection">>)
    ELSE IF dls.t # "map" THEN Raise("TypeError")
    ELSE IF InRaises(dls.v["dimension"]) THEN Raise("TypeError")
    ELSE IF ~InTrue("name", dls.v["dimension"])
    THEN Ok(<<AxisLabel(n) \o ": Missing 'name' in dimension">>)
    ELSE NoErrors

\* query.py lines 145-148 / run_query.py lines 98-101
LevelIdsCheck(dls, n) ==
    IF InRaises(dls) THEN Raise("TypeError")
    ELSE IF ~InTrue("levelIds", dls)
    THEN Ok(<<AxisLabel(n) \o ": Missing 'levelIds' in dimensionLevelSelection">>)
    ELSE IF dls.t # "map" THEN Raise("TypeError")
    ELSE IF ~PyTruthy(dls.v["levelIds"])
    THEN Ok(<<AxisLabel(n) \o ": 'levelIds' is empty (at least one level ID required)">>)
    ELSE NoErrors

\* query.py lines 150-154
NumericRangesCheck(nr, n) ==
    IF InRaises(nr) THEN Raise("TypeError")
    ELSE Then(
        IF ~InTrue("property", nr)
        THEN Ok(<<AxisLabel(n) \o ": Missing 'property' in numericRanges">>)
        ELSE NoErrors,
        IF ~InTrue("ranges", nr)
        THEN Ok(<<AxisLabel(n) \o ": Missing 'ranges' in numericRanges (space-separated bounds)">>)
        ELSE NoErrors)

\* query.py lines 135-154: the checks of axis number i (0-based), reported as
\* "Axis i+1".
AxisRule(axis, i) ==
    IF InRaises(axis) THEN Raise("TypeError")
    ELSE IF ~(\E k \in ValidAxisKeySet : InTrue(k, axis))
    THEN Ok(<<AxisLabel(i + 1) \o ": Must have one of " \o ValidAxisKeysJoined>>)
    ELSE IF InTrue("dimensionLevelSelection", axis)
    THEN IF axis.t # "map" THEN Raise("TypeError")
         ELSE Then(DimensionCheck(axis.v["dimensionLevelSelection"], i + 1),
                   LevelIdsCheck(axis.v["dimensionLevelSelection"], i + 1))
    ELSE IF InTrue("numericRanges", axis)
    THEN IF axis.t # "map" THEN Raise("TypeError")
         ELSE NumericRangesCheck(axis.v["numericRanges"], i + 1)
    ELSE NoErrors

RECURSIVE AxisLoop(_, _)
AxisLoop(items, i) ==
    IF items = <<>> THEN NoErrors
    ELSE Then(AxisRule(Head(items), i), AxisLoop(Tail(items), i + 1))

\* query.py lines 117-154: the axes rule of validate_payload_structure.
AxesRule(query) ==
    IF InRaises(query) THEN Raise("TypeError")
    ELSE IF ~InTrue("axes", query)
    THEN Ok(<<"Missing 'axes' in query (at least one axis is required)">>)
    ELSE IF query.t # "map" THEN Raise("TypeError")
    ELSE IF ~PyTruthy(query.v["axes"])
    THEN Ok(<<"'axes' is empty (at least one axis is required)">>)
    ELSE IF IterRaises(query.v["axes"]) THEN Raise("TypeError")
    ELSE AxisLoop(PyIter(query.v["axes"]), 0)

\* What a validator hands back: (len(errors) == 0, errors), or the exception.
Returned(r) ==
    [exc |-> r.exc, ok |-> r.exc = "" /\ r.errs = <<>>, errors |-> r.errs]

\* validate_payload_structure without the return of line 100: the missing
\* key is one more entry and the rules go on with an empty query.
validate_payload_structure_accumulating(payload) ==
    IF InRaises(payload) THEN Returned(Raise("TypeError"))
    ELSE IF ~InTrue("query", payload)
    THEN Returned(Then(Ok(<<MissingQueryMsg>>),
                  Then(SourceRule(JMap(<<>>)), AxesRule(JMap(<<>>)))))
    ELSE IF payload.t # "map" THEN Returned(Raise("TypeError"))
    ELSE Returned(Then(SourceRule(payload.v["query"]), AxesRule(payload.v["query"])))

\* query.py lines 88-156
validate_payload_structure(payload) ==
    IF InRaises(payload) THEN Returned(Raise("TypeError"))
    ELSE IF ~InTrue("query", payload) THEN Returned(Ok(<<MissingQueryMsg>>))
    ELSE IF payload.t # "map" THEN Returned(Raise("TypeError"))
    ELSE Returned(Then(SourceRule(payload.v["query"]), AxesRule(payload.v["query"])))

\* run_query.py lines 75-80: the source rule of validate_payload.
RunSourceRule(query) ==
    IF InRaises(query) THEN Raise("TypeError")
    ELSE IF ~InTrue("source", query) THEN Ok(<<"Missing 'source' in query">>)
    ELSE IF query.t # "map" THEN Raise("TypeError")
    ELSE IF InRaises(query.v["source"]) THEN Raise("TypeError")
    ELSE IF ~InTrue("metric", query.v["source"])
    THEN Ok(<<"Missing 'metric' in source">>)
    ELSE NoErrors

\* run_query.py lines 90-101: the checks of axis number i, reported as "Axis i".
RunAxisRule(axis, i) ==
    IF InRaises(axis) THEN Raise("TypeError")
    ELSE IF ~InTrue("dimensionLevelSelection", axis)
    THEN Ok(<<AxisLabel(i) \o ": Missing 'dimensionLevelSelection'">>)
    ELSE IF axis.t # "map" THEN Raise("TypeError")
    ELSE Then(DimensionCheck(axis.v["dimensionLevelSelection"], i),
              LevelIdsCheck(axis.v["dimensionLevelSelection"], i))

RECURSIVE RunAxisLoop(_, _)
RunAxisLoop(items, i) ==
    IF items = <<>> THEN NoErrors
    ELSE Then(RunAxisRule(Head(items), i), RunAxisLoop(Tail(items), i + 1))

\* run_query.py lines 83-101: the axes rule of validate_payload.
RunAxesRule(query) ==
    IF InRaises(query) THEN Raise("TypeError")
    ELSE IF ~InTrue("axes", query)
    THEN Ok(<<"Missing 'axes' in query (at least one axis is required)">>)
    ELSE IF query.t # "map" THEN Raise("TypeError")
    ELSE IF ~PyTruthy(query.v["axes"])
    THEN Ok(<<"'axes' is empty (at least one axis is required)">>)
    ELSE IF IterRaises(query.v["axes"]) THEN Raise("TypeError")
    ELSE RunAxisLoop(PyIter(query.v["axes"]), 0)

FilterLabel(n) == "Filter " \o ToString(n)

\* run_query.py lines 106-107
RunFilterRule(filter_item, i) ==
    IF InRaises(filter_item) THEN Raise("TypeError")
    ELSE IF ~InTrue("memberSet", filter_item) /\ ~InTrue("selectionConcept", filter_item)
    THEN Ok(<<FilterLabel(i) \o ": Must have either 'memberSet' or 'selectionConcept'">>)
    ELSE NoErrors

RECURSIVE RunFilterLoop(_, _)
RunFilterLoop(items, i) ==
    IF items = <<>> THEN NoErrors
    ELSE Then(RunFilterRule(Head(items), i), RunFilterLoop(Tail(items), i + 1))

\* run_query.py lines 104-107: the filters rule of validate_payload.
RunFiltersRule(query) ==
    IF InRaises(query) THEN Raise("TypeError")
    ELSE IF ~InTrue("filters", query) THEN NoErrors
    ELSE IF query.t # "map" THEN Raise("TypeError")
    ELSE IF IterRaises(query.v["filters"]) THEN Raise("TypeError")
    ELSE RunFilterLoop(PyIter(query.v["filters"]), 0)

\* run_query.py lines 110-117: the timeIntervals rule of validate_payload.
RunTimeIntervalsRule(query) ==
    IF InRaises(query) THEN Raise("TypeError")
    ELSE IF ~InTrue("timeIntervals", query) THEN NoErrors
    ELSE IF query.t # "map" THEN Raise("TypeError")
    ELSE LET ti == query.v["timeIntervals"] IN
        IF InRaises(ti) THEN Raise("TypeError")
        ELSE Ok(
            (IF ~InTrue("fromDateTime", ti) /\ ~InTrue("dynamicDateFrom", ti)
             THEN <<"timeIntervals: Must have either 'fromDateTime' or 'dynamicDateFrom'">>
             ELSE <<>>)
            \o (IF ~InTrue("intervalPeriodType", ti)
                THEN <<"timeIntervals: Missing 'intervalPeriodType'">> ELSE <<>>)
            \o (IF ~InTrue("intervalCount", ti)
                THEN <<"timeIntervals: Missing 'intervalCount'">> ELSE <<>>))

\* run_query.py lines 58-119
validate_payload(payload) ==
    IF InRaises(payload) THEN Returned(Raise("TypeError"))
    ELSE IF ~InTrue("query", payload) THEN Returned(Ok(<<MissingQueryMsg>>))
    ELSE IF payload.t # "map" THEN Returned(Raise("TypeError"))
    ELSE Returned(
        Then(RunSourceRule(payload.v["query"]),
        Then(RunAxesRule(payload.v["query"]),
        Then(RunFiltersRule(payload.v["query"]),
             RunTimeIntervalsRule(payload.v["query"])))))

----------------------------------------------------------------------------
(* The payloads handed to the validators. *)

MetricName == JStr("employeeCount")
Column == MkMap({<<"id", MetricName>>})

SourceVals ==
    { MkMap({}),
      MkMap({<<"metric", MetricName>>}),
      MkMap({<<"metrics", MkMap({})>>}),
      MkMap({<<"metrics", MkMap({<<"columns", JList(<<>>)>>})>>}),
      MkMap({<<"metrics", MkMap({<<"columns", JList(<<Column>>)>>})>>}),
      MkMap({<<"metric", MetricName>>,
             <<"metrics", MkMap({<<"columns", JList(<<>>)>>})>>}) }

DimensionOk ==
    MkMap({<<"name", JStr("Gender")>>, <<"qualifyingPath", JStr("Employee")>>})
LevelIdsOk == JList(<<JStr("Gender")>>)

DlsVals ==
    { MkMap({<<"dimension", d>>, <<"levelIds", l>>}) :
        d \in {Absent, MkMap({}), DimensionOk},
        l \in {Absent, JList(<<>>), LevelIdsOk} }

NrVals ==
    { MkMap({<<"property", pr>>, <<"ranges", r>>}) :
        pr \in {Absent, MkMap({<<"name", JStr("Employee.age")>>})},
        r \in {Absent, JStr("0 30 50")} }

AxisOk ==
    MkMap({<<"dimensionLevelSelection",
             MkMap({<<"dimension", DimensionOk>>, <<"levelIds", LevelIdsOk>>})>>})
AxisNoTag == MkMap({})

\* Every combination of the tags dimensionLevelSelection, numericRanges and
\* formula, and an axis whose only key is not a known tag.
AxisVals ==
    { MkMap({<<"dimensionLevelSelection", d>>, <<"numericRanges", n>>, <<"formula", f>>}) :
        d \in {Absent} \cup DlsVals,
        n \in {Absent} \cup NrVals,
        f \in {Absent, JStr("on Employee validUntil instant")} }
    \cup { MkMap({<<"customSelection", MkMap({})>>}) }

FilterVals ==
    { MkMap({<<"memberSet", m>>, <<"selectionConcept", c>>}) :
        m \in {Absent, MkMap({<<"values", MkMap({})>>})},
        c \in {Absent, MkMap({<<"name", JStr("isManager")>>})} }

TimeIntervalsVals ==
    { MkMap({<<"fromDateTime", f>>, <<"dynamicDateFrom", d>>,
             <<"intervalPeriodType", p>>, <<"intervalCount", c>>}) :
        f \in {Absent, JStr("2021-01-01")},
        d \in {Absent, JStr("SOURCE")},
        p \in {Absent, JStr("MONTH")},
        c \in {Absent, JNum(6)} }

JLists(S, n) == {JList(q) : q \in SeqsUpTo(S, n)}

Query(source, axes, filters, ti) ==
    MkMap({<<"source", source>>, <<"axes", axes>>, <<"filters", filters>>,
           <<"timeIntervals", ti>>})

\* Queries with every combination of a defect of the source, of the axes, of
\* the filters and of the time intervals.
CrossQueries ==
    { Query(s, a, f, ti) :
        s \in {Absent} \cup SourceVals,
        a \in {Absent} \cup JLists({AxisOk, AxisNoTag}, MaxQueryAxes),
        f \in {Absent} \cup JLists(FilterVals, MaxFilters),
        ti \in {Absent} \cup TimeIntervalsVals }

\* An axes list with the axis at position n replaced by axis a.
ReplaceAt(q, n, a) == [q EXCEPT ![n] = a]

\* Queries that are well formed but for one axis, which is any of AxisVals at
\* any position.
AxisQueries ==
    { Query(MkMap({<<"metric", MetricName>>}), JList(ReplaceAt(q, n, a)), Absent, Absent) :
        q \in [1..MaxQueryAxes -> {AxisOk}] \cup [1..1 -> {AxisOk}],
        n \in 1..MaxQueryAxes, a \in AxisVals }

QueryOk == Query(MkMap({<<"metric", MetricName>>}), JList(<<AxisOk>>), Absent, Absent)

\* Values that are not of the type the schema has at their place.
Junk ==
    { JNull, JNum(0), JNum(5), JStr(""), JStr("x"), JList(<<>>),
      JList(<<JStr("x")>>), MkMap({<<"x", JNum(1)>>}) }

DlsWith(d, l) ==
    MkMap({<<"dimensionLevelSelection", MkMap({<<"dimension", d>>, <<"levelIds", l>>})>>})

\* The well-formed query with a value of any JSON type at one place.
JunkQueries ==
    Junk
    \cup { Query(j, JList(<<AxisOk>>), Absent, Absent) : j \in Junk }
    \cup { Query(MkMap({<<"metric", m>>, <<"metrics", j>>}), JList(<<AxisOk>>), Absent, Absent) :
            j \in Junk, m \in {Absent, MetricName} }
    \cup { Query(MkMap({<<"metric", MetricName>>}), a, Absent, Absent) :
            a \in Junk
                \cup {JList(<<AxisOk, j>>) : j \in Junk}
                \cup {JList(<<MkMap({<<"dimensionLevelSelection", j>>})>>) : j \in Junk}
                \cup {JList(<<DlsWith(j, LevelIdsOk)>>) : j \in Junk}
                \cup {JList(<<DlsWith(DimensionOk, j)>>) : j \in Junk}
                \cup {JList(<<MkMap({<<"numericRanges", j>>})>>) : j \in Junk} }
    \cup { Query(MkMap({<<"metric", MetricName>>}), JList(<<AxisOk>>), f, Absent) :
            f \in Junk \cup {JList(<<j>>) : j \in Junk} }
    \cup { Query(MkMap({<<"metric", MetricName>>}), JList(<<AxisOk>>), Absent, j) :
            j \in Junk }

Queries == CrossQueries \cup AxisQueries \cup JunkQueries

\* Payloads without the "query" key: empty, the query's own keys at the top
\* level, the key misspelt, only options.
NoQueryPayloads ==
    { q \in AxisQueries \cup {QueryOk} : q.t = "map" }
    \cup { MkMap({}), MkMap({<<"Query", QueryOk>>}),
           MkMap({<<"options", MkMap({<<"zeroVisibility", JStr("ELIMINATE")>>})>>}),
           MkMap({<<"payload", MkMap({<<"query", QueryOk>>})>>}) }

Payloads ==
    { MkMap({<<"query", q>>, <<"options", o>>}) :
        q \in Queries, o \in {Absent} }
    \cup { MkMap({<<"query", QueryOk>>, <<"options", MkMap({})>>}) }
    \cup NoQueryPayloads

\* query.py line 237: is_valid, errors = validate_payload_structure(payload)
ValidateStructure ==
    /\ result_structure = NotRun
    /\ result_structure' = validate_payload_structure(val_payload)
    /\ UNCHANGED <<val_payload, result_run>>
    /\ UNCHANGED <<batchVars, decVars, cliVars, buildVars>>

\* run_query.py line 211: is_valid, errors = validate_payload(payload)
ValidateRun ==
    /\ result_run = NotRun
    /\ result_run' = validate_payload(val_payload)
    /\ UNCHANGED <<val_payload, result_structure>>
    /\ UNCHANGED <<batchVars, decVars, cliVars, buildVars>>

ValNext == ValidateStructure \/ ValidateRun

\* Number of true conditions among three.
Count3(a, b, c) ==
    (IF a THEN 1 ELSE 0) + (IF b THEN 1 ELSE 0) + (IF c THEN 1 ELSE 0)

\* The defects of a query of CrossQueries under the rules the claims name: a
\* source that is missing or has neither metric nor metrics, missing axes, a
\* filter with neither memberSet nor selectionConcept, and each requirement of
\* timeIntervals that is not met.
SourceDefects(query) ==
    IF "source" \notin DOMAIN query.v THEN 1
    ELSE IF DOMAIN query.v["source"].v \cap {"metric", "metrics"} = {} THEN 1 ELSE 0

AxesDefects(query) == IF "axes" \notin DOMAIN query.v THEN 1 ELSE 0

FilterDefects(query) ==
    IF "filters" \notin DOMAIN query.v THEN 0
    ELSE Cardinality({n \in 1..Len(query.v["filters"].v) :
            DOMAIN query.v["filters"].v[n].v \cap {"memberSet", "selectionConcept"} = {}})

TimeIntervalDefects(query) ==
    IF "timeIntervals" \notin DOMAIN query.v THEN 0
    ELSE LET keys == DOMAIN query.v["timeIntervals"].v IN
        Count3(keys \cap {"fromDateTime", "dynamicDateFrom"} = {},
               "intervalPeriodType" \notin keys,
               "intervalCount" \notin keys)

Defects(query) ==
    SourceDefects(query) + AxesDefects(query) + FilterDefects(query)
        + TimeIntervalDefects(query)

HasQuery == "query" \in DOMAIN val_payload.v

\* C5: once a validator has returned for a payload without the "query" key,
\* its result is (False, ["Missing 'query' key in payload"]): no exception, one
\* entry, nothing from any other rule.  Both validators.
C5_MissingQuery ==
    \A r \in {result_structure, result_run} :
        (r # NotRun /\ ~HasQuery) =>
            r = [exc |-> "", ok |-> FALSE,
                 errors |-> <<"Missing 'query' key in payload">>]

\* Both validators returned for a payload that has no "query" key but has the
\* query's own keys, defects included, at the top level.
C5_Witness ==
    /\ result_structure # NotRun
    /\ result_run # NotRun
    /\ ~HasQuery
    /\ "source" \in DOMAIN val_payload.v
    /\ "axes" \in DOMAIN val_payload.v
    /\ val_payload # QueryOk
    /\ result_structure.errors = <<"Missing 'query' key in payload">>
    /\ result_run.errors = <<"Missing 'query' key in payload">>

\* C6 (as stated): once a validator has returned for a payload whose query
\* holds mappings and lists where the schema has them, the list has at least
\* one entry for each defect of the source, of the axes key, of each filter and
\* of timeIntervals.  Both validators.
C6_EveryDefectReported ==
    \A r \in {result_structure, result_run} :
        (r # NotRun /\ HasQuery /\ val_payload.v["query"] \in CrossQueries) =>
            /\ r.exc = ""
            /\ Len(r.errors) >= Defects(val_payload.v["query"])

\* C7 (as stated): a validator that was called has returned an (ok, errors)
\* pair, whatever JSON value stands at any place of the payload, and the pair
\* of a payload that is not accepted lists at least one defect.
C7_NeverRaises ==
    \A r \in {result_structure, result_run} :
        r # NotRun =>
            /\ r.exc = ""
            /\ r.ok = (r.errors = <<>>)


\* The known variant tags an axis carries.
KnownTags(axis) == DOMAIN axis.v \cap ValidAxisKeySet

\* The axes of the payload's query, for a query of AxisQueries.
PayloadAxes == val_payload.v["query"].v["axes"].v

\* C14 (as stated): once a validator has returned for a payload whose axes
\* are well formed but for one, and that one carries no known tag or more than
\* one, the payload is not accepted.  Both validators.
C14_ExactlyOneTag ==
    \A r \in {result_structure, result_run} :
        (/\ r # NotRun
         /\ HasQuery
         /\ val_payload.v["query"] \in AxisQueries
         /\ \E n \in 1..Len(PayloadAxes) : Cardinality(KnownTags(PayloadAxes[n])) # 1)
            => (r.exc = "" /\ ~r.ok /\ r.errors # <<>>)


\* The query that is well formed but for its filters and time intervals.
WellFormedBut(filters, ti) ==
    Query(MkMap({<<"metric", MetricName>>}), JList(<<AxisOk>>), filters, ti)

\* The query that is well formed but for its source.
WellFormedButSource(source) == Query(source, JList(<<AxisOk>>), Absent, Absent)

\* The filters of a list that do not carry exactly one of the two selectors.
BadFilters(filters) ==
    {n \in 1..Len(filters.v) :
        Cardinality(DOMAIN filters.v[n].v \cap {"memberSet", "selectionConcept"}) # 1}

\* C15 (as stated): once a validator has returned for a query that is well
\* formed but for its filters, the list has one entry for every filter that
\* has neither memberSet nor selectionConcept or has both, and no other.
\* Both validators.
C15_FilterSelector ==
    \A r \in {result_structure, result_run} :
        \A f \in JLists(FilterVals, MaxFilters) :
            (r # NotRun /\ HasQuery /\ val_payload.v["query"] = WellFormedBut(f, Absent))
                => (r.exc = "" /\ Len(r.errors) = Cardinality(BadFilters(f)))

\* C16 (as stated): once a validator has returned for a query that is well
\* formed but for its timeIntervals, the list has one entry for each
\* requirement not met (one of fromDateTime and dynamicDateFrom;
\* intervalPeriodType; intervalCount) and no other; without timeIntervals the
\* query is accepted.  Both validators.
C16_TimeIntervals ==
    \A r \in {result_structure, result_run} :
        \A ti \in {Absent} \cup TimeIntervalsVals :
            (r # NotRun /\ HasQuery /\ val_payload.v["query"] = WellFormedBut(Absent, ti))
                => /\ r.exc = ""
                   /\ Len(r.errors) = TimeIntervalDefects(WellFormedBut(Absent, ti))
                   /\ r.ok = (r.errors = <<>>)

\* The source has metric, or metrics.columns with at least one column.
SourceAccepted(source) ==
    /\ source # Absent
    /\ \/ "metric" \in DOMAIN source.v
       \/ /\ "metrics" \in DOMAIN source.v
          /\ "columns" \in DOMAIN source.v["metrics"].v
          /\ source.v["metrics"].v["columns"].v # <<>>

\* C17 (as stated): once a validator has returned for a query that is well
\* formed but for its source, the query is accepted exactly when the source
\* is present and has metric, or metrics.columns with at least one column.
\* Both validators.
C17_SourceRule ==
    \A r \in {result_structure, result_run} :
        \A src \in {Absent} \cup SourceVals :
            (r # NotRun /\ HasQuery /\ val_payload.v["query"] = WellFormedButSource(src))
                => (r.exc = "" /\ (r.ok <=> SourceAccepted(src)))

\* dimension.name is present and levelIds is present and not empty.
DlsComplete(dls) ==
    /\ "dimension" \in DOMAIN dls.v
    /\ "name" \in DOMAIN dls.v["dimension"].v
    /\ "levelIds" \in DOMAIN dls.v
    /\ dls.v["levelIds"].v # <<>>

NrComplete(nr) == {"property", "ranges"} \subseteq DOMAIN nr.v

\* C18 (as stated): once a validator has returned for a payload whose axes
\* are well formed but for one, the payload is not accepted when an axis has
\* a dimensionLevelSelection that is not complete or a numericRanges that is
\* not complete, whatever other tag that axis carries.  Both validators.
C18_AxisDetails ==
    \A r \in {result_structure, result_run} :
        (r # NotRun /\ HasQuery /\ val_payload.v["query"] \in AxisQueries) =>
            \A n \in 1..Len(PayloadAxes) :
                LET axis == PayloadAxes[n] IN
                (\/ /\ "dimensionLevelSelection" \in DOMAIN axis.v
                    /\ ~DlsComplete(axis.v["dimensionLevelSelection"])
                 \/ /\ "numericRanges" \in DOMAIN axis.v
                    /\ ~NrComplete(axis.v["numericRanges"]))
                    => (r.exc = "" /\ ~r.ok)


----------------------------------------------------------------------------
(* aggregate_query_vanilla.py: convert_vanilla_response_to_dataframe *)

\* x.get(k, default) on a mapping
GetOr(x, k, default) == IF k \in DOMAIN x.v THEN x.v[k] ELSE default

\* a or b
PyOr(a, b) == IF PyTruthy(a) THEN a ELSE b

\* str(x), f"{x}"
PyStr(x) ==
    CASE x.t = "str" -> x.v
      [] x.t = "num" -> ToString(x.v)
      [] x.t = "null" -> "None"
      [] x.t = "list" -> IF x.v = <<>> THEN "[]" ELSE "[...]"
      [] OTHER -> "{...}"

\* The strings of this model whose lower-case form contains "measures".
MeasuresStrings == {"Measures", "measures", "Key_Measures"}

\* "measures" in str(x).lower(), for x a value of a response axis (no key of
\* the response schema contains "measures").
RECURSIVE ContainsMeasures(_)
ContainsMeasures(x) ==
    CASE x.t = "str" -> x.v \in MeasuresStrings
      [] x.t = "list" -> \E n \in 1..Len(x.v) : ContainsMeasures(x.v[n])
      [] x.t = "map" -> \E k \in DOMAIN x.v : k \in MeasuresStrings \/ ContainsMeasures(x.v[k])
      [] OTHER -> FALSE

\* The test of line 621 without its third operand: only the keys count.
IsMeasuresAxis_keys_only(axis) == InTrue("measure", axis) \/ InTrue("metric", axis)

\* line 621: the axis is taken for the Measures axis.
IsMeasuresAxis(axis) ==
    InTrue("measure", axis) \/ InTrue("metric", axis) \/ ContainsMeasures(axis)

\* axis.get("measure") or axis.get("metric")
AxisMetricField(axis) ==
    PyOr(GetOr(axis, "measure", JNull), GetOr(axis, "metric", JNull))

\* lines 587-597: the metric id taken from the response when no hint is given.
RECURSIVE FirstMetricAxis(_)
FirstMetricAxis(axes) ==
    IF axes = <<>> THEN JNull
    ELSE IF InTrue("measure", Head(axes)) \/ InTrue("metric", Head(axes))
    THEN AxisMetricField(Head(axes))
    ELSE FirstMetricAxis(Tail(axes))

ResponseAxes(resp) == GetOr(resp, "axes", JList(<<>>)).v

\* The resolution without lines 587-597: only the argument counts.
ResolvedMetric_hint_only(resp, hint) == hint

ResolvedMetric(resp, hint) ==
    IF hint.t # "null" THEN hint
    ELSE LET m == FirstMetricAxis(ResponseAxes(resp)) IN
        IF m.t = "null" /\ InTrue("source", resp)
        THEN PyOr(GetOr(resp.v["source"], "metric", JNull),
                  GetOr(resp.v["source"], "measure", JNull))
        ELSE m

PositionPlaceholder(i) == JStr("Position_" \o ToString(i))

\* lines 651-663: the label of the position with index i.
PositionLabel(position, i) ==
    IF InTrue("path", position)
    THEN LET path == position.v["path"] IN
        IF path.t = "list" /\ Len(path.v) > 0
        THEN JStr(PyStr(path.v[Len(path.v)]))
        ELSE JStr(PyStr(path))
    ELSE IF InTrue("members", position) /\ PyTruthy(position.v["members"])
    THEN LET member == position.v["members"].v[1] IN
        PyOr(GetOr(member, "name", JNull),
             PyOr(GetOr(member, "memberId", JNull), PositionPlaceholder(i)))
    ELSE PositionPlaceholder(i)

\* lines 627-636: the metric id taken from the first position of a Measures
\* axis, current when the axis has no usable first position.
MetricFromPositions(axis, current) ==
    IF InTrue("positions", axis) /\ PyTruthy(axis.v["positions"])
    THEN LET pos == axis.v["positions"].v[1] IN
        IF InTrue("path", pos)
        THEN IF pos.v["path"].t = "list" /\ Len(pos.v["path"].v) > 0
             THEN JStr(PyStr(pos.v["path"].v[Len(pos.v["path"].v)]))
             ELSE JStr(PyStr(pos.v["path"]))
        ELSE IF InTrue("members", pos) /\ PyTruthy(pos.v["members"])
        THEN PyOr(GetOr(pos.v["members"].v[1], "name", JNull),
                  GetOr(pos.v["members"].v[1], "memberId", JNull))
        ELSE current
    ELSE current

SyntheticName(n) == "Dimension_" \o ToString(n)

\* lines 619-642: one iteration of the classification loop, for axis number i
\* (0-based); acc holds dimension_names, measures_axis_idx and metric_id.
ClassifyAxis(axis, i, acc) ==
    IF IsMeasuresAxis(axis)
    THEN [names |-> Append(acc.names, "Measures"),
          idx |-> i,
          metric |-> IF acc.metric.t = "null"
                     THEN MetricFromPositions(axis, AxisMetricField(axis))
                     ELSE acc.metric]
    ELSE IF InTrue("dimension", axis) /\ PyTruthy(axis.v["dimension"])
    THEN [acc EXCEPT !.names =
            Append(acc.names,
                   PyStr(GetOr(axis.v["dimension"], "name",
                               JStr(SyntheticName(Len(acc.names))))))]
    ELSE [acc EXCEPT !.names = Append(acc.names, SyntheticName(Len(acc.names)))]

RECURSIVE ClassifyLoop(_, _, _)
ClassifyLoop(axes, i, acc) ==
    IF i >= Len(axes) THEN acc
    ELSE ClassifyLoop(axes, i + 1, ClassifyAxis(axes[i + 1], i, acc))

\* lines 646-665: the position table of one axis; entry i + 1 is positions[i].
PositionTable(axis) ==
    IF InTrue("positions", axis)
    THEN [n \in 1..Len(axis.v["positions"].v) |->
            PositionLabel(axis.v["positions"].v[n], n - 1)]
    ELSE <<>>

\* pos_map.get(coord_idx, f"Position_{coord_idx}")
Lookup(pos_map, coord_idx) ==
    IF coord_idx.t = "num" /\ coord_idx.v \in 0..(Len(pos_map) - 1)
    THEN pos_map[coord_idx.v + 1]
    ELSE JStr("Position_" \o PyStr(coord_idx))

\* row[k] = val on a dict that keeps insertion order.
DictSet(d, k, val) ==
    IF \E n \in 1..Len(d) : d[n][1] = k
    THEN [n \in 1..Len(d) |-> IF d[n][1] = k THEN <<k, val>> ELSE d[n]]
    ELSE Append(d, <<k, val>>)

DictKeys(d) == [n \in 1..Len(d) |-> d[n][1]]
DictHas(d, k) == \E n \in 1..Len(d) : d[n][1] = k
DictGet(d, k) == d[CHOOSE n \in 1..Len(d) : d[n][1] = k][2]

\* The loop of lines 676-684 without the branch of lines 680-681: every
\* column holds the label of its position.
RECURSIVE CoordLoop_labels(_, _, _, _, _, _)
CoordLoop_labels(coordinates, i, names, tables, metric, d) ==
    IF i >= Len(coordinates) THEN d
    ELSE IF i < Len(tables)
    THEN LET dim_name == IF i < Len(names) THEN names[i + 1] ELSE SyntheticName(i) IN
        CoordLoop_labels(coordinates, i + 1, names, tables, metric,
            DictSet(d, dim_name, Lookup(tables[i + 1], coordinates[i + 1])))
    ELSE CoordLoop_labels(coordinates, i + 1, names, tables, metric, d)

\* lines 676-684: the columns the coordinates of one cell fill in.
RECURSIVE CoordLoop(_, _, _, _, _, _)
CoordLoop(coordinates, i, names, tables, metric, d) ==
    IF i >= Len(coordinates) THEN d
    ELSE IF i < Len(tables)
    THEN LET dim_name == IF i < Len(names) THEN names[i + 1] ELSE SyntheticName(i) IN
        CoordLoop(coordinates, i + 1, names, tables, metric,
            DictSet(d, dim_name,
                IF dim_name = "Measures" /\ PyTruthy(metric)
                THEN metric
                ELSE Lookup(tables[i + 1], coordinates[i + 1])))
    ELSE CoordLoop(coordinates, i + 1, names, tables, metric, d)

\* A float, held in tenths: JFloat(25) is 2.5 and JFloat(100) is 10.0.
JFloat(n) == [t |-> "float", v |-> n]

\* A JSON integer too large for a float (more than 308 digits), and the
\* float that json.loads makes of the literal Infinity.
JBigInt == [t |-> "bigint", v |-> 0]
JInfinity == [t |-> "inf", v |-> 0]

\* float(s) of the strings of this model that float() parses, in tenths.
FloatOf == [s \in {"10", "5", "42", "3", "2.5"} |->
                CASE s = "10" -> 100 [] s = "5" -> 50 [] s = "42" -> 420
                  [] s = "3" -> 30 [] s = "2.5" -> 25]

\* int(s) of the strings of this model that int() parses.
NumberOf == [s \in {"10", "5", "42", "3"} |->
                CASE s = "10" -> 10 [] s = "5" -> 5 [] s = "42" -> 42 [] s = "3" -> 3]

Raised(e) == [t |-> "raise", v |-> e]

\* float(x): the float, or the exception raised.
PyFloat(x) ==
    CASE x.t = "num" -> JFloat(10 * x.v)
      [] x.t \in {"float", "inf"} -> x
      [] x.t = "bigint" -> Raised("OverflowError")
      [] x.t = "str" -> IF x.v \in DOMAIN FloatOf THEN JFloat(FloatOf[x.v])
                        ELSE Raised("ValueError")
      [] OTHER -> Raised("TypeError")

\* int(x): the integer, or the exception raised.
PyInt(x) ==
    CASE x.t \in {"num", "bigint"} -> x
      [] x.t = "float" -> JNum(x.v \div 10)
      [] x.t = "inf" -> Raised("OverflowError")
      [] x.t = "str" -> IF x.v \in DOMAIN NumberOf THEN JNum(NumberOf[x.v])
                        ELSE Raised("ValueError")
      [] OTHER -> Raised("TypeError")

\* try: ... except (ValueError, TypeError): None
CatchValueTypeError(r) ==
    IF r.t = "raise" /\ r.v \in {"ValueError", "TypeError"} THEN JNull ELSE r

\* lines 687-694 (and 602-610): the value column, or the exception that
\* leaves the try block.
CoerceValue(c) ==
    LET cell_value == GetOr(c, "value", JNull) IN
    IF cell_value.t = "null" \/ (cell_value.t = "str" /\ cell_value.v = "")
    THEN JNull
    ELSE CatchValueTypeError(PyFloat(cell_value))

\* lines 698-705: the support column of a cell that has the key, or the
\* exception that leaves the try block.
CoerceSupport(c) ==
    LET support_value == c.v["support"] IN
    IF support_value.t = "null" \/ (support_value.t = "str" /\ support_value.v = "")
    THEN JNull
    ELSE CatchValueTypeError(PyInt(support_value))

\* lines 670-707: the row of one cell.
BuildRow(c, names, tables, metric) ==
    LET d1 == IF InTrue("coordinates", c)
              THEN CoordLoop(c.v["coordinates"].v, 0, names, tables, metric, <<>>)
              ELSE <<>>
        d2 == DictSet(d1, "value", CoerceValue(c))
    IN IF InTrue("support", c) THEN DictSet(d2, "support", CoerceSupport(c)) ELSE d2

\* The exception an iteration of the row loop ends with, "" if none: the
\* value is coerced before the support.
RowException(c) ==
    IF CoerceValue(c).t = "raise" THEN CoerceValue(c).v
    ELSE IF InTrue("support", c) /\ CoerceSupport(c).t = "raise" THEN CoerceSupport(c).v
    ELSE ""

\* The columns of pd.DataFrame(rows) once one more row is there: a new key is
\* added after the columns seen so far.
RECURSIVE AddColumns(_, _)
AddColumns(cols, keys) ==
    IF keys = <<>> THEN cols
    ELSE AddColumns(
            IF \E n \in 1..Len(cols) : cols[n] = Head(keys) THEN cols
            ELSE Append(cols, Head(keys)),
            Tail(keys))

NoException == [type |-> "", msg |-> ""]

\* No call has ended yet.
NoResult == [kind |-> "none", exc |-> NoException, columns |-> <<>>, nrows |-> 0, last |-> <<>>]

\* lines 572-576: the exception raised for response["error"].
ErrorException(error) ==
    IF error.t # "map" THEN [type |-> "AttributeError", msg |-> ""]
    ELSE [type |-> "ValueError",
          msg |-> "Query failed: "
                    \o PyStr(GetOr(error, "message", JStr("Unknown error")))
                    \o (IF InTrue("errorCode", error)
                        THEN " (Code: " \o PyStr(error.v["errorCode"]) \o ")"
                        ELSE "")]

\* Responses

Position(path, members) == MkMap({<<"path", path>>, <<"members", members>>})

Member(name) == MkMap({<<"name", JStr(name)>>})

Axis(dimension, measure, positions) ==
    MkMap({<<"dimension", dimension>>, <<"measure", measure>>,
           <<"positions", positions>>})

Dimension(name) == MkMap({<<"name", JStr(name)>>})

\* A dimension with two positions, the second with a two-element path.
CountryAxis ==
    Axis(Dimension("Country"), Absent,
         JList(<<Position(JList(<<JStr("US")>>), Absent),
                 Position(JList(<<JStr("North America"), JStr("CA")>>), Absent)>>))

\* No dimension and no positions.
BareAxis == Axis(Absent, Absent, Absent)

\* A dimension whose name is also a synthetic name; its positions have
\* members only, an empty path, a path that is a string, a memberId only, no
\* member, and nothing.
GenderAxis ==
    Axis(Dimension("Dimension_1"), Absent,
         JList(<<Position(Absent, JList(<<Member("Female")>>)),
                 Position(JList(<<>>), JList(<<Member("Male")>>)),
                 Position(JStr("Other"), JList(<<Member("Absent")>>)),
                 Position(Absent, JList(<<MkMap({<<"memberId", JStr("m4")>>})>>)),
                 Position(Absent, JList(<<>>)),
                 Position(Absent, Absent)>>))

\* A Measures axis recognised by its measure key.
MeasureKeyAxis ==
    Axis(Absent, JStr("headcountMeasure"),
         JList(<<Position(JList(<<JStr("posMetric")>>), Absent)>>))

\* A Measures axis recognised by its text.
MeasuresNameAxis ==
    Axis(Dimension("Measures"), Absent,
         JList(<<Position(JList(<<JStr("posMetric")>>), Absent)>>))

\* A Measures axis recognised by the text of its dimension name, with no
\* measure, no metric and no positions.
KeyMeasuresAxis == Axis(Dimension("Key_Measures"), Absent, Absent)

AxisKinds ==
    {CountryAxis, BareAxis, GenderAxis, MeasureKeyAxis, MeasuresNameAxis, KeyMeasuresAxis}

ErrorVals ==
    {MkMap({<<"message", m>>, <<"errorCode", c>>}) :
        m \in {Absent, JStr("Metric not found")}, c \in {Absent, JStr("E404")}}
        \cup {JNull, JStr("boom")}

ResponseSourceVals == {Absent, MkMap({<<"metric", JStr("sourceMetric")>>})}

MetricHints == {JNull, JStr("hintMetric")}

Responses ==
    {MkMap({<<"error", e>>, <<"axes", a>>, <<"source", src>>}) :
        e \in {Absent} \cup ErrorVals,
        a \in {Absent} \cup JLists(AxisKinds, MaxAxes),
        src \in ResponseSourceVals}

\* The responses that are decoded twice: every kind of error and source, axes
\* of four kinds.
RepeatResponses ==
    {MkMap({<<"error", e>>, <<"axes", a>>, <<"source", src>>}) :
        e \in {Absent} \cup ErrorVals,
        a \in {Absent}
                \cup JLists({CountryAxis, BareAxis, GenderAxis, MeasureKeyAxis}, MaxAxes),
        src \in ResponseSourceVals}

CoordVals == {JNum(-1), JNum(0), JNum(1)}

\* value and support of a cell
ScalarVals ==
    {<<JStr("10"), Absent>>, <<JStr(""), JStr("3")>>,
     <<JStr("NaN_text"), JStr("")>>, <<Absent, JNull>>,
     <<JStr("2.5"), JStr("2.5")>>, <<JFloat(25), JFloat(25)>>,
     <<JNum(42), JNum(3)>>, <<JNull, JStr("NaN_text")>>,
     <<JList(<<>>), JMap(<<>>)>>,
     <<JBigInt, JNum(3)>>, <<JStr("10"), JInfinity>>}

Cell(coordinates, value, support) ==
    MkMap({<<"coordinates", coordinates>>, <<"value", value>>, <<"support", support>>})

\* Lists of k coordinates: the first position of every axis, and the lists
\* that differ from it at one place.
CoordinateLists(k) ==
    LET first == [j \in 1..k |-> JNum(0)] IN
    {first} \cup {[first EXCEPT ![j] = c] : j \in 1..k, c \in CoordVals}

\* The coordinates a cell of a response with n axes can carry: none, one
\* fewer than the axes, as many, or one more.
CoordinateVals(n) ==
    {Absent}
        \cup {JList(q) : q \in UNION {CoordinateLists(k) : k \in {j \in 0..n : j >= n - 1}}}
        \cup {JList([j \in 1..(n + 1) |-> JNum(0)])}

\* The cells of a response with n axes: every choice of coordinates with a
\* plain value, and every choice of scalars at the first position of every axis.
CellVals(n) ==
    {Cell(c, JStr("10"), Absent) : c \in CoordinateVals(n)}
        \cup {Cell(JList([k \in 1..n |-> JNum(0)]), sc[1], sc[2]) : sc \in ScalarVals}

CellsFor == [n \in 0..MaxAxes |-> CellVals(n)]

\* The cells of a response that is decoded twice: no coordinates, the first
\* or the second position of every axis, with three choices of scalars.
RepeatCellVals(n) ==
    {Cell(c, sc[1], sc[2]) :
        c \in {Absent, JList([k \in 1..n |-> JNum(0)]), JList([k \in 1..n |-> JNum(1)])},
        sc \in {<<JStr("10"), Absent>>, <<JStr(""), JStr("3")>>, <<JBigInt, JNum(3)>>}}

RepeatCellsFor == [n \in 0..MaxAxes |-> RepeatCellVals(n)]

\* cells[cells_done]: in a first call any cell of the input set, in a later
\* call the cell the first call read at this place.
NextCells ==
    IF calls > 0 THEN {cells[cells_done + 1]}
    ELSE IF again > 0 THEN RepeatCellsFor[Len(ResponseAxes(response))]
    ELSE CellsFor[Len(ResponseAxes(response))]

ReadCells(c) == IF again > 0 /\ calls = 0 THEN Append(cells, c) ELSE cells

\* values = [] (line 601), rows = [] (line 668): the length of the new list,
\* whatever an earlier call left.
FreshList_kept(n) == n

FreshList(n) == 0

\* line 571
HasError_if_truthy(resp) == PyTruthy(GetOr(resp, "error", JNull))

HasError(resp) == InTrue("error", resp)

\* lines 571-576
CheckError ==
    /\ dec_pc = "start"
    /\ IF HasError(response)
       THEN /\ dec_exc' = ErrorException(response.v["error"])
            /\ dec_pc' = "raised"
       ELSE /\ dec_pc' = "extract"
            /\ UNCHANGED dec_exc
    /\ UNCHANGED <<response, has_cells, cells_len, metric_hint, metric_id,
                   dimension_names, measures_axis_idx, axis_positions,
                   cells_done, cell, row, nrows, columns>>
    /\ UNCHANGED callVars
    /\ UNCHANGED cells
    /\ UNCHANGED <<valVars, batchVars, cliVars, buildVars>>

\* A test of line 582 that never holds: the function goes on without cells.
NoCells_never(n) == FALSE

\* line 582: `if not cells`, for cells = response.get("cells", []) of length n.
NoCells(n) == n = 0

\* lines 580-584
ExtractCells ==
    /\ dec_pc = "extract"
    /\ IF NoCells(cells_len)
       THEN /\ dec_pc' = "returned"
            /\ row' = <<>> /\ nrows' = 0 /\ columns' = <<>>
       ELSE /\ dec_pc' = "resolve"
            /\ UNCHANGED <<row, nrows, columns>>
    /\ UNCHANGED <<response, has_cells, cells_len, metric_hint, metric_id, dec_exc,
                   dimension_names, measures_axis_idx, axis_positions,
                   cells_done, cell>>
    /\ UNCHANGED callVars
    /\ UNCHANGED cells
    /\ UNCHANGED <<valVars, batchVars, cliVars, buildVars>>

\* lines 587-601
ResolveMetric ==
    /\ dec_pc = "resolve"
    /\ metric_id' = ResolvedMetric(response, metric_hint)
    /\ IF ResponseAxes(response) = <<>>
       THEN /\ dec_pc' = "values"
            /\ nrows' = FreshList(nrows)
            /\ cells_done' = 0 /\ row' = <<>> /\ columns' = <<>>
       ELSE /\ dec_pc' = "classify"
            /\ UNCHANGED <<cells_done, row, nrows, columns>>
    /\ UNCHANGED <<response, has_cells, cells_len, metric_hint, dec_exc,
                   dimension_names, measures_axis_idx, axis_positions, cell>>
    /\ UNCHANGED callVars
    /\ UNCHANGED cells
    /\ UNCHANGED <<valVars, batchVars, cliVars, buildVars>>

\* lines 602-610: one iteration of the loop of the no-axes path
AppendValue ==
    /\ dec_pc = "values"
    /\ cells_done < cells_len
    /\ \E c \in NextCells :
        /\ cell' = c
        /\ cells' = ReadCells(c)
        /\ IF CoerceValue(c).t = "raise"
           THEN /\ dec_exc' = [type |-> CoerceValue(c).v, msg |-> ""]
                /\ dec_pc' = "raised"
                /\ UNCHANGED <<row, nrows>>
           ELSE /\ row' = <<<<"value", CoerceValue(c)>>>>
                /\ nrows' = nrows + 1
                /\ UNCHANGED <<dec_pc, dec_exc>>
    /\ cells_done' = cells_done + 1
    /\ UNCHANGED <<response, has_cells, cells_len, metric_hint, metric_id,
                   dimension_names, measures_axis_idx, axis_positions,
                   columns>>
    /\ UNCHANGED callVars
    /\ UNCHANGED <<valVars, batchVars, cliVars, buildVars>>

\* lines 611-614
ReturnValues ==
    /\ dec_pc = "values"
    /\ cells_done = cells_len
    /\ IF PyTruthy(metric_id)
       THEN /\ columns' = <<"value", "Measures">>
            /\ row' = Append(row, <<"Measures", metric_id>>)
       ELSE /\ columns' = <<"value">>
            /\ UNCHANGED row
    /\ dec_pc' = "returned"
    /\ UNCHANGED <<response, has_cells, cells_len, metric_hint, metric_id,
                   dec_exc, dimension_names, measures_axis_idx, axis_positions,
                   cells_done, cell, nrows>>
    /\ UNCHANGED callVars
    /\ UNCHANGED cells
    /\ UNCHANGED <<valVars, batchVars, cliVars, buildVars>>

\* lines 617-642
ClassifyAxes ==
    /\ dec_pc = "classify"
    /\ LET acc == ClassifyLoop(ResponseAxes(response), 0,
                               [names |-> <<>>, idx |-> -1, metric |-> metric_id])
       IN /\ dimension_names' = acc.names
          /\ measures_axis_idx' = acc.idx
          /\ metric_id' = acc.metric
    /\ dec_pc' = "positions"
    /\ UNCHANGED <<response, has_cells, cells_len, metric_hint, dec_exc,
                   axis_positions, cells_done, cell, row, nrows, columns>>
    /\ UNCHANGED callVars
    /\ UNCHANGED cells
    /\ UNCHANGED <<valVars, batchVars, cliVars, buildVars>>

\* lines 646-668
BuildPositions ==
    /\ dec_pc = "positions"
    /\ axis_positions' = [n \in 1..Len(ResponseAxes(response)) |->
                            PositionTable(ResponseAxes(response)[n])]
    /\ nrows' = FreshList(nrows)
    /\ cells_done' = 0 /\ row' = <<>> /\ columns' = <<>>
    /\ dec_pc' = "rows"
    /\ UNCHANGED <<response, has_cells, cells_len, metric_hint, metric_id, dec_exc,
                   dimension_names, measures_axis_idx, cell>>
    /\ UNCHANGED callVars
    /\ UNCHANGED cells
    /\ UNCHANGED <<valVars, batchVars, cliVars, buildVars>>

\* lines 669-707: one iteration of the row loop
DecodeCell ==
    /\ dec_pc = "rows"
    /\ cells_done < cells_len
    /\ \E c \in NextCells :
        /\ cell' = c
        /\ cells' = ReadCells(c)
        /\ IF RowException(c) # ""
           THEN /\ dec_exc' = [type |-> RowException(c), msg |-> ""]
                /\ dec_pc' = "raised"
                /\ UNCHANGED <<row, nrows, columns>>
           ELSE /\ row' = BuildRow(c, dimension_names, axis_positions, metric_id)
                /\ columns' = AddColumns(columns, DictKeys(row'))
                /\ nrows' = nrows + 1
                /\ UNCHANGED <<dec_pc, dec_exc>>
    /\ cells_done' = cells_done + 1
    /\ UNCHANGED <<response, has_cells, cells_len, metric_hint, metric_id,
                   dimension_names, measures_axis_idx, axis_positions>>
    /\ UNCHANGED callVars
    /\ UNCHANGED <<valVars, batchVars, cliVars, buildVars>>

\* lines 709-715
ReturnTable ==
    /\ dec_pc = "rows"
    /\ cells_done = cells_len
    /\ IF PyTruthy(metric_id) /\ ~(\E n \in 1..Len(columns) : columns[n] = "Measures")
       THEN /\ columns' = InsertColumn(columns, "Measures")
            /\ row' = InsertColumn(row, <<"Measures", metric_id>>)
       ELSE UNCHANGED <<columns, row>>
    /\ dec_pc' = "returned"
    /\ UNCHANGED <<response, has_cells, cells_len, metric_hint, metric_id,
                   dec_exc, dimension_names, measures_axis_idx, axis_positions,
                   cells_done, cell, nrows>>
    /\ UNCHANGED callVars
    /\ UNCHANGED cells
    /\ UNCHANGED <<valVars, batchVars, cliVars, buildVars>>

\* What the call that ended gave its caller: the exception, or the table
\* (its columns, its length, its last row).
DecodeResult ==
    IF dec_pc = "raised"
    THEN [kind |-> "raise", exc |-> dec_exc, columns |-> <<>>, nrows |-> 0, last |-> <<>>]
    ELSE [kind |-> "table", exc |-> NoException, columns |-> columns, nrows |-> nrows,
          last |-> row]

\* lines 554-557: the caller calls the function again with the same response
\* and metric_id; the arguments are bound, every other local is whatever the
\* statements of the function make it.
CallAgain ==
    /\ dec_pc \in {"returned", "raised"}
    /\ again > 0
    /\ again' = again - 1
    /\ calls' = calls + 1
    /\ first_result' = IF calls = 0 THEN DecodeResult ELSE first_result
    /\ metric_id' = metric_hint
    /\ dec_exc' = NoException
    /\ dec_pc' = "start"
    /\ UNCHANGED <<response, has_cells, cells_len, metric_hint, cells,
                   dimension_names, measures_axis_idx, axis_positions,
                   cells_done, cell, row, nrows, columns>>
    /\ UNCHANGED <<valVars, batchVars, cliVars, buildVars>>

DecodeNext ==
    \/ CheckError
    \/ ExtractCells
    \/ ResolveMetric
    \/ AppendValue
    \/ ReturnValues
    \/ ClassifyAxes
    \/ BuildPositions
    \/ DecodeCell
    \/ ReturnTable

DecodeTwiceNext == DecodeNext \/ CallAgain

\* The row loop has consumed a cell of a response with axes.
CellDecoded ==
    /\ dec_pc \in {"rows", "returned"}
    /\ cells_done > 0
    /\ Len(ResponseAxes(response)) >= 1

\* len(cell["coordinates"]), -1 for a cell without the key
CoordinateCount(c) ==
    IF InTrue("coordinates", c) THEN Len(c.v["coordinates"].v) ELSE -1

\* Coordinate number i (0-based) of the current cell exists, belongs to an
\* axis, and is an index into the positions of that axis.
ValidCoordinate(i) ==
    /\ i < CoordinateCount(cell)
    /\ i < Len(ResponseAxes(response))
    /\ cell.v["coordinates"].v[i + 1].v \in
            0..(Len(PositionTable(ResponseAxes(response)[i + 1])) - 1)

\* Coordinate number i of the current cell exists and belongs to an axis, but
\* that axis has no position with this index.
UnmatchedCoordinate(i) ==
    /\ i < CoordinateCount(cell)
    /\ i < Len(ResponseAxes(response))
    /\ cell.v["coordinates"].v[i + 1].v \notin
            0..(Len(PositionTable(ResponseAxes(response)[i + 1])) - 1)

AxisIndexes == 0..(Len(ResponseAxes(response)) - 1)

\* C1 (as stated): once the row loop has consumed a cell whose coordinates are
\* missing or are not as many as the axes of the response, decode has raised;
\* the cell was not turned into a record.
C1_MalformedCellRejected ==
    (CellDecoded /\ CoordinateCount(cell) # Len(ResponseAxes(response)))
        => (dec_pc = "raised" /\ nrows = 0)

\* C2: a response with an "error" key makes decode raise at its first step,
\* before cells, axes or the metric are looked at, and no record is produced;
\* when the error is an object the exception text is "Query failed: " and the
\* message ("Unknown error" without one), followed by " (Code: <errorCode>)"
\* when the error has an errorCode.
C2_ErrorSurfaced ==
    ("error" \in DOMAIN response.v /\ dec_pc # "start") =>
        /\ dec_pc = "raised"
        /\ nrows = 0 /\ cells_done = 0 /\ row = <<>> /\ columns = <<>>
        /\ dimension_names = <<>> /\ axis_positions = <<>>
        /\ metric_id = metric_hint
        /\ LET error == response.v["error"] IN
            IF error.t = "map"
            THEN /\ dec_exc.type = "ValueError"
                 /\ dec_exc.msg =
                        "Query failed: "
                        \o (IF "message" \in DOMAIN error.v
                            THEN error.v["message"].v ELSE "Unknown error")
                        \o (IF "errorCode" \in DOMAIN error.v
                            THEN " (Code: " \o error.v["errorCode"].v \o ")" ELSE "")
            ELSE dec_exc.type # ""

\* A response with message, errorCode, axes and cells was rejected.
C2_Witness ==
    /\ dec_pc = "raised"
    /\ "error" \in DOMAIN response.v
    /\ response.v["error"].t = "map"
    /\ DOMAIN response.v["error"].v = {"message", "errorCode"}
    /\ dec_exc.msg = "Query failed: Metric not found (Code: E404)"
    /\ cells_len > 0
    /\ Len(ResponseAxes(response)) = MaxAxes

\* C9 (as stated): after a cell is decoded, for every Dimension axis i whose
\* coordinate is an index into its positions, the row's column named after
\* axis i holds the label of that position.
C9_DimensionLabel ==
    CellDecoded =>
        \A i \in AxisIndexes :
            (ValidCoordinate(i) /\ ~IsMeasuresAxis(ResponseAxes(response)[i + 1])) =>
                /\ DictHas(row, dimension_names[i + 1])
                /\ DictGet(row, dimension_names[i + 1]) =
                        PositionTable(ResponseAxes(response)[i + 1])
                            [cell.v["coordinates"].v[i + 1].v + 1]

\* C10 (as stated, for the Dimension axes): after a cell is decoded, decode has
\* not raised, the cell is a record, and for every Dimension axis i whose
\* coordinate matches no position the row's column named after axis i holds
\* "Position_<coordinate>".
C10_PositionFallback ==
    CellDecoded =>
        /\ dec_exc = NoException
        /\ nrows = cells_done
        /\ \A i \in AxisIndexes :
            (UnmatchedCoordinate(i) /\ ~IsMeasuresAxis(ResponseAxes(response)[i + 1])) =>
                /\ DictHas(row, dimension_names[i + 1])
                /\ DictGet(row, dimension_names[i + 1]) =
                        JStr("Position_" \o ToString(cell.v["coordinates"].v[i + 1].v))

\* The loop over the cells has consumed a cell, with or without axes.
CellConsumed == cells_done > 0

\* C11 (as stated): once a cell is consumed decode has not raised; the row has
\* a value, which is None when the cell's value is null, missing or the empty
\* string; and with axes the row has a support entry exactly when the cell has
\* the support key, None when that is null or the empty string.
C11_ScalarCoercion ==
    CellConsumed =>
        /\ dec_exc = NoException
        /\ DictHas(row, "value")
        /\ (GetOr(cell, "value", JNull) \in {JNull, JStr("")})
                => DictGet(row, "value") = JNull
        /\ Len(ResponseAxes(response)) >= 1 =>
                /\ DictHas(row, "support") <=> "support" \in DOMAIN cell.v
                /\ (DictHas(row, "support") /\ cell.v["support"] \in {JNull, JStr("")})
                        => DictGet(row, "support") = JNull

\* Decode returned a table for a response with cells and without axes.
FastPathReturned ==
    /\ dec_pc = "returned"
    /\ cells_len > 0
    /\ ResponseAxes(response) = <<>>

\* The metric identifier known for a response without axes: the hint, else
\* the metric of response.source, else none.
KnownMetric ==
    IF metric_hint # JNull THEN metric_hint
    ELSE IF "source" \in DOMAIN response.v /\ "metric" \in DOMAIN response.v["source"].v
    THEN response.v["source"].v["metric"]
    ELSE JNull

\* C12: a table returned for a response with cells and no axes (empty or
\* absent) has one record per cell; its columns are value, holding the coerced
\* value of the cell, and after it Measures, holding the metric identifier,
\* exactly when the hint or response.source gives one; there is no dimension
\* column and no support column, whatever the cell carries.
C12_NoAxesFastPath ==
    FastPathReturned =>
        /\ nrows = cells_len
        /\ columns = DictKeys(row)
        /\ DictGet(row, "value") = CoerceValue(cell)
        /\ IF KnownMetric # JNull
           THEN row = <<<<"value", CoerceValue(cell)>>, <<"Measures", KnownMetric>>>>
           ELSE row = <<<<"value", CoerceValue(cell)>>>>

\* The no-axes round trip with a hint, for a cell that also has coordinates
\* and a support: {"value": 42.0, "Measures": "hintMetric"}.
C12_Witness ==
    /\ FastPathReturned
    /\ "axes" \notin DOMAIN response.v
    /\ GetOr(cell, "value", JNull) = JNum(42)
    /\ "support" \in DOMAIN cell.v
    /\ "coordinates" \in DOMAIN cell.v
    /\ row = <<<<"value", JFloat(420)>>, <<"Measures", JStr("hintMetric")>>>>

\* C13: a second call with the same response and hint gives what the first
\* call gave (the same exception, or a table with the same columns, length and
\* last row), whatever the first call left behind; a returned table has one
\* record per cell; and the rows are appended in cell order: after k cells
\* there are k rows, the last of them built from the k-th cell.
C13_Deterministic ==
    /\ (calls > 0 /\ dec_pc \in {"returned", "raised"}) => DecodeResult = first_result
    /\ (dec_pc = "returned" /\ cells_len > 0) => nrows = cells_len
    /\ dec_pc \in {"rows", "values"} => nrows = cells_done
    /\ (dec_pc = "rows" /\ cells_done > 0) =>
            /\ row = BuildRow(cell, dimension_names, axis_positions, metric_id)
            /\ cells # <<>> => cell = cells[cells_done]
    /\ (dec_pc = "values" /\ cells_done > 0) =>
            /\ row = <<<<"value", CoerceValue(cell)>>>>
            /\ cells # <<>> => cell = cells[cells_done]

\* A second call has returned a table with as many rows as the cells allow,
\* for a response with axes, after a first call that returned one too.
C13_Witness ==
    /\ calls = 1
    /\ dec_pc = "returned"
    /\ first_result.kind = "table"
    /\ nrows = MaxCells
    /\ Len(dimension_names) = MaxAxes
    /\ DecodeResult = first_result

\* The place the column order gives a column of the table: in front for a
\* Measures column that stands for no axis, the number of its axis for an
\* axis column, then value, then support.
ColumnRank(col) ==
    IF col = "value" THEN Len(dimension_names) + 1
    ELSE IF col = "support" THEN Len(dimension_names) + 2
    ELSE IF \E n \in 1..Len(dimension_names) : dimension_names[n] = col
    THEN CHOOSE n \in 1..Len(dimension_names) :
            /\ dimension_names[n] = col
            /\ \A m \in 1..(n - 1) : dimension_names[m] # col
    ELSE 0

\* Decode returned a table with rows for a response with axes.
TableReturned ==
    /\ dec_pc = "returned"
    /\ nrows > 0
    /\ Len(ResponseAxes(response)) >= 1

\* C19 (as stated): the columns of a table returned for a response with axes
\* are in order: an inserted Measures column, the axis columns in the order
\* of the axes, value, support; whatever coordinates and support the cells
\* carry.
C19_ColumnOrder ==
    TableReturned =>
        \A a, b \in 1..Len(columns) :
            a < b => ColumnRank(columns[a]) < ColumnRank(columns[b])

\* The columns of a row that are neither value nor support.
AxisColumns(d) == {n \in 1..Len(d) : d[n][1] \notin {"value", "support"}}

\* C20 (as stated): the record of a cell that has a coordinate for every
\* axis has as many axis columns as the response has axes.
C20_ColumnPerAxis ==
    (/\ dec_pc = "rows" /\ cells_done > 0
     /\ Len(ResponseAxes(response)) >= 1
     /\ CoordinateCount(cell) = Len(ResponseAxes(response)))
        => Cardinality(AxisColumns(row)) = Len(ResponseAxes(response))


\* The axes of the response that are classified as Measures (1-based).
MeasuresAxes ==
    {n \in 1..Len(ResponseAxes(response)) : IsMeasuresAxis(ResponseAxes(response)[n])}

\* response.source.metric or response.source.measure, None without them.
SourceMetric ==
    IF "source" \in DOMAIN response.v
    THEN PyOr(GetOr(response.v["source"], "metric", JNull),
              GetOr(response.v["source"], "measure", JNull))
    ELSE JNull

\* The first position of the axis has a path or a member to take a label from.
HasFirstLabel(axis) ==
    /\ "positions" \in DOMAIN axis.v
    /\ axis.v["positions"].v # <<>>
    /\ \/ "path" \in DOMAIN axis.v["positions"].v[1].v
       \/ /\ "members" \in DOMAIN axis.v["positions"].v[1].v
          /\ axis.v["positions"].v[1].v["members"].v # <<>>

\* The metric identifier the priority chain gives a response with one
\* Measures axis at most: the axis's measure or metric, else the label of its
\* first position, else the metric or measure of response.source.
ChainMetric ==
    IF MeasuresAxes = {} THEN SourceMetric
    ELSE LET axis == ResponseAxes(response)[CHOOSE n \in MeasuresAxes : TRUE] IN
        IF PyTruthy(AxisMetricField(axis)) THEN AxisMetricField(axis)
        ELSE IF HasFirstLabel(axis) THEN PositionLabel(axis.v["positions"].v[1], 0)
        ELSE SourceMetric

\* The axes of a response with cells and without a hint have been classified.
ResolvedWithoutHint ==
    /\ metric_hint = JNull
    /\ dec_pc \in {"positions", "rows", "returned"}
    /\ cells_len > 0
    /\ Len(ResponseAxes(response)) >= 1

\* C22 (as stated): without a hint, once the axes of a response with one
\* Measures axis at most are classified, the metric identifier is the one the
\* priority chain gives: field, then first position label, then source.
C22_ResolutionChain ==
    (ResolvedWithoutHint /\ Cardinality(MeasuresAxes) <= 1) => metric_id = ChainMetric


\* C23 (as stated): without a hint, when the priority chain gives no metric
\* identifier for a response with one Measures axis at most, the metric stays
\* unknown and neither the row of a decoded cell nor the table has a Measures
\* column.
C23_UnknownMetricOmitted ==
    (/\ ResolvedWithoutHint /\ Cardinality(MeasuresAxes) <= 1
     /\ ChainMetric = JNull
     /\ cells_done > 0)
        => /\ metric_id = JNull
           /\ ~DictHas(row, "Measures")
           /\ \A n \in 1..Len(columns) : columns[n] # "Measures"


\* The current cell has a coordinate for an axis classified as Measures.
MeasuresCoordinate == \E n \in MeasuresAxes : n <= CoordinateCount(cell)

\* C24: a hint, when given, is the metric identifier; and when a metric
\* identifier is known, the row of every decoded cell that has a coordinate
\* on a Measures axis holds that identifier in its Measures column, not the
\* label of the position.
C24_MeasuresHoldsMetric ==
    /\ (metric_hint # JNull /\ dec_pc # "raised") => metric_id = metric_hint
    /\ (CellDecoded /\ PyTruthy(metric_id) /\ MeasuresCoordinate)
            => /\ DictHas(row, "Measures")
               /\ DictGet(row, "Measures") = metric_id

\* With a hint, the second cell of a response whose Measures axis has the one
\* position posMetric was decoded with a coordinate that points to it, and
\* its Measures column holds the hint.
C24_Witness ==
    /\ CellDecoded
    /\ nrows = MaxCells
    /\ metric_hint = JStr("hintMetric")
    /\ ResponseAxes(response)[1] = MeasureKeyAxis
    /\ CoordinateCount(cell) >= 1
    /\ cell.v["coordinates"].v[1] = JNum(0)
    /\ axis_positions[1][1] = JStr("posMetric")
    /\ DictGet(row, "Measures") = JStr("hintMetric")


\* C25: a table with rows returned for a response with axes, none of them
\* classified as Measures, when a metric identifier is known, has Measures as
\* its first column and nowhere else, and the record holds the identifier
\* there.
C25_MeasuresInserted ==
    (TableReturned /\ PyTruthy(metric_id) /\ MeasuresAxes = {})
        => /\ columns[1] = "Measures"
           /\ \A n \in 2..Len(columns) : columns[n] # "Measures"
           /\ row[1] = <<"Measures", metric_id>>
           /\ metric_id = IF metric_hint # JNull THEN metric_hint ELSE SourceMetric

\* Without a hint the metric of response.source was put in front of the two
\* dimension columns of a table of two records with supports.
C25_Witness ==
    /\ TableReturned
    /\ nrows = MaxCells
    /\ metric_hint = JNull
    /\ ResponseAxes(response) = <<CountryAxis, BareAxis>>
    /\ columns = <<"Measures", "Country", "Dimension_1", "value", "support">>
    /\ row[1] = <<"Measures", JStr("sourceMetric")>>


\* The label the fallback chain gives the position with ordinal i: the last
\* element of a path that is a list and not empty; a path that is not a list,
\* as a string; the name, else the memberId, of the first member; else the
\* placeholder.
ChainLabel(position, i) ==
    LET path == GetOr(position, "path", Absent)
        members == GetOr(position, "members", JList(<<>>))
    IN IF path.t = "list" /\ path.v # <<>> THEN JStr(PyStr(path.v[Len(path.v)]))
       ELSE IF path.t \notin {"absent", "list"} THEN JStr(PyStr(path))
       ELSE IF members.v # <<>>
       THEN PyOr(GetOr(members.v[1], "name", JNull),
                 PyOr(GetOr(members.v[1], "memberId", JNull), PositionPlaceholder(i)))
       ELSE PositionPlaceholder(i)

\* The position tables of the response have been built.
PositionsBuilt ==
    /\ dec_pc \in {"rows", "returned"}
    /\ cells_len > 0
    /\ Len(ResponseAxes(response)) >= 1

\* C26 (as stated): once the position tables are built, every position of
\* every axis has the one label the fallback chain gives it.
C26_PositionLabel ==
    PositionsBuilt =>
        \A n \in 1..Len(ResponseAxes(response)) :
            LET axis == ResponseAxes(response)[n] IN
            "positions" \in DOMAIN axis.v =>
                /\ Len(axis_positions[n]) = Len(axis.v["positions"].v)
                /\ \A k \in 1..Len(axis.v["positions"].v) :
                    axis_positions[n][k] = ChainLabel(axis.v["positions"].v[k], k - 1)


\* The axes of a response with cells have been classified.
AxesClassified ==
    /\ dec_pc \in {"positions", "rows", "returned"}
    /\ cells_len > 0
    /\ Len(ResponseAxes(response)) >= 1

\* C27: once the axes are classified there is one column name per axis; it
\* is Measures exactly for the axes that have a measure or metric key or
\* whose text contains "measures" in any case, and for every other axis it is
\* dimension.name when that is present and otherwise Dimension_<index of the
\* axis in the response>.
C27_AxisClassification ==
    AxesClassified =>
        /\ Len(dimension_names) = Len(ResponseAxes(response))
        /\ \A n \in 1..Len(ResponseAxes(response)) :
            LET axis == ResponseAxes(response)[n] IN
            IF \/ "measure" \in DOMAIN axis.v
               \/ "metric" \in DOMAIN axis.v
               \/ ContainsMeasures(axis)
            THEN dimension_names[n] = "Measures"
            ELSE /\ dimension_names[n] # "Measures"
                 /\ dimension_names[n] =
                        IF /\ "dimension" \in DOMAIN axis.v
                           /\ "name" \in DOMAIN axis.v["dimension"].v
                        THEN axis.v["dimension"].v["name"].v
                        ELSE "Dimension_" \o ToString(n - 1)

\* A dimension named Key_Measures was classified as Measures, and the axis
\* without a dimension after it was named after its index.
C27_Witness ==
    /\ AxesClassified
    /\ ResponseAxes(response) = <<KeyMeasuresAxis, BareAxis>>
    /\ dimension_names = <<"Measures", "Dimension_1">>


\* df.empty, the test of the callers: no row or no column.
TableEmpty == nrows = 0 \/ columns = <<>>

\* C28: for a response without an error key whose cells are absent or empty,
\* decode returns at once a table with no row and no column, whatever the
\* axes and the hint; no Measures column is inserted; the table is empty for
\* the callers.
C28_NoCellsEmptyTable ==
    (/\ "error" \notin DOMAIN response.v
     /\ cells_len = 0
     /\ dec_pc \notin {"start", "extract"})
        => /\ dec_pc = "returned"
           /\ dec_exc = NoException
           /\ nrows = 0 /\ columns = <<>> /\ row = <<>>
           /\ TableEmpty

\* A response with axes and no cells key, decoded with a hint, gave the empty
\* table.
C28_Witness ==
    /\ dec_pc = "returned"
    /\ ~has_cells
    /\ "error" \notin DOMAIN response.v
    /\ metric_hint = JStr("hintMetric")
    /\ Len(ResponseAxes(response)) = MaxAxes
    /\ columns = <<>>
    /\ nrows = 0


----------------------------------------------------------------------------
(* query.py main and aggregate/scripts/run_query.py main *)

\* The content of the payload file: accepted by both validators; accepted by
\* validate_payload_structure only (multi-metric source; a filter with no
\* selector); rejected by both (empty query; no query); a query that is null.
CliPayloads ==
    { MkMap({<<"query", QueryOk>>}),
      MkMap({<<"query", Query(MkMap({<<"metrics", MkMap({<<"columns", JList(<<Column>>)>>})>>}),
                              JList(<<AxisOk>>), Absent, Absent)>>}),
      MkMap({<<"query", Query(MkMap({<<"metric", MetricName>>}), JList(<<AxisOk>>),
                              JList(<<MkMap({})>>), Absent)>>}),
      MkMap({<<"query", MkMap({})>>}),
      MkMap({}),
      MkMap({<<"query", JNull>>}) }

\* The command lines of query.py: --setup, --payload, --validate-only, --verbose.
QueryArgs ==
    { [setup |-> su, payload |-> pl, validate_only |-> vo, verbose |-> vb,
       debug |-> FALSE, save_payload |-> FALSE] :
        su \in BOOLEAN, pl \in BOOLEAN, vo \in BOOLEAN, vb \in BOOLEAN }

\* The command lines of run_query.py: --validate-only, --verbose, --debug,
\* --save-payload; args.file always has a value (lines 169-174).
RunQueryArgs ==
    { [setup |-> FALSE, payload |-> TRUE, validate_only |-> vo, verbose |-> vb,
       debug |-> db, save_payload |-> sp] :
        vo \in BOOLEAN, vb \in BOOLEAN, db \in BOOLEAN, sp \in BOOLEAN }

CliRest == <<script, args, cli_payload>>

\* return n
CliReturn(n) ==
    /\ cli_exit' = n
    /\ cli_pc' = "exit"

\* query.py lines 197-205
Q_Setup ==
    /\ script = "query" /\ cli_pc = "start"
    /\ args.setup
    /\ \E imported \in BOOLEAN : CliReturn(IF imported THEN 0 ELSE 1)
    /\ UNCHANGED <<CliRest, validation, creds_checked, sent>>
    /\ UNCHANGED <<valVars, batchVars, decVars, buildVars>>

\* query.py lines 208-212
Q_RequirePayload ==
    /\ script = "query" /\ cli_pc = "start"
    /\ ~args.setup
    /\ IF ~args.payload THEN CliReturn(1)
       ELSE cli_pc' = "load" /\ UNCHANGED cli_exit
    /\ UNCHANGED <<CliRest, validation, creds_checked, sent>>
    /\ UNCHANGED <<valVars, batchVars, decVars, buildVars>>

\* query.py lines 215-233: the file is there and parses, or not
Q_Load ==
    /\ script = "query" /\ cli_pc = "load"
    /\ \E loaded \in BOOLEAN :
        IF loaded THEN cli_pc' = "validate" /\ UNCHANGED cli_exit
        ELSE CliReturn(1)
    /\ UNCHANGED <<CliRest, validation, creds_checked, sent>>
    /\ UNCHANGED <<valVars, batchVars, decVars, buildVars>>

\* query.py lines 236-245; an exception of the validator is not caught
Q_Validate ==
    /\ script = "query" /\ cli_pc = "validate"
    /\ validation' = validate_payload_structure(cli_payload)
    /\ IF validation'.exc # "" \/ ~validation'.ok THEN CliReturn(1)
       ELSE cli_pc' = "validate_only" /\ UNCHANGED cli_exit
    /\ UNCHANGED <<CliRest, creds_checked, sent>>
    /\ UNCHANGED <<valVars, batchVars, decVars, buildVars>>

\* query.py lines 248-251
Q_ValidateOnly ==
    /\ script = "query" /\ cli_pc = "validate_only"
    /\ IF args.validate_only THEN CliReturn(0)
       ELSE cli_pc' = "credentials" /\ UNCHANGED cli_exit
    /\ UNCHANGED <<CliRest, validation, creds_checked, sent>>
    /\ UNCHANGED <<valVars, batchVars, decVars, buildVars>>

\* query.py lines 254-257
Q_Credentials ==
    /\ script = "query" /\ cli_pc = "credentials"
    /\ creds_checked' = TRUE
    /\ \E configured \in BOOLEAN :
        IF configured THEN cli_pc' = "execute" /\ UNCHANGED cli_exit
        ELSE CliReturn(1)
    /\ UNCHANGED <<CliRest, validation, sent>>
    /\ UNCHANGED <<valVars, batchVars, decVars, buildVars>>

\* query.py lines 260-285
Q_Execute ==
    /\ script = "query" /\ cli_pc = "execute"
    /\ sent' = TRUE
    /\ \E answered \in BOOLEAN :
        IF answered THEN cli_pc' = "process" /\ UNCHANGED cli_exit
        ELSE CliReturn(1)
    /\ UNCHANGED <<CliRest, validation, creds_checked>>
    /\ UNCHANGED <<valVars, batchVars, decVars, buildVars>>

\* query.py lines 288-353: decode, save, summary
Q_Process ==
    /\ script = "query" /\ cli_pc = "process"
    /\ \E saved \in BOOLEAN : CliReturn(IF saved THEN 0 ELSE 1)
    /\ UNCHANGED <<CliRest, validation, creds_checked, sent>>
    /\ UNCHANGED <<valVars, batchVars, decVars, buildVars>>

\* run_query.py lines 177-196
R_Load ==
    /\ script = "run_query" /\ cli_pc = "start"
    /\ \E loaded \in BOOLEAN :
        IF loaded THEN cli_pc' = "save_payload" /\ UNCHANGED cli_exit
        ELSE CliReturn(1)
    /\ UNCHANGED <<CliRest, validation, creds_checked, sent>>
    /\ UNCHANGED <<valVars, batchVars, decVars, buildVars>>

\* run_query.py lines 199-206
R_SavePayload ==
    /\ script = "run_query" /\ cli_pc = "save_payload"
    /\ \E written \in BOOLEAN :
        IF args.save_payload /\ ~written THEN CliReturn(1)
        ELSE cli_pc' = "validate" /\ UNCHANGED cli_exit
    /\ UNCHANGED <<CliRest, validation, creds_checked, sent>>
    /\ UNCHANGED <<valVars, batchVars, decVars, buildVars>>

\* run_query.py line 209
ValidationRequested(a) == a.debug \/ a.verbose \/ a.validate_only

\* run_query.py lines 209-219; an exception of the validator is not caught
R_Validate ==
    /\ script = "run_query" /\ cli_pc = "validate"
    /\ IF ValidationRequested(args)
       THEN /\ validation' = validate_payload(cli_payload)
            /\ IF validation'.exc # "" \/ ~validation'.ok THEN CliReturn(1)
               ELSE cli_pc' = "validate_only" /\ UNCHANGED cli_exit
       ELSE /\ cli_pc' = "validate_only"
            /\ UNCHANGED <<validation, cli_exit>>
    /\ UNCHANGED <<CliRest, creds_checked, sent>>
    /\ UNCHANGED <<valVars, batchVars, decVars, buildVars>>

\* run_query.py lines 222-224
R_ValidateOnly ==
    /\ script = "run_query" /\ cli_pc = "validate_only"
    /\ IF args.validate_only THEN CliReturn(0)
       ELSE cli_pc' = "debug" /\ UNCHANGED cli_exit
    /\ UNCHANGED <<CliRest, validation, creds_checked, sent>>
    /\ UNCHANGED <<valVars, batchVars, decVars, buildVars>>

\* run_query.py lines 227-240: --debug reads the API configuration
R_DebugConfig ==
    /\ script = "run_query" /\ cli_pc = "debug"
    /\ creds_checked' = args.debug
    /\ cli_pc' = "execute"
    /\ UNCHANGED <<CliRest, validation, sent, cli_exit>>
    /\ UNCHANGED <<valVars, batchVars, decVars, buildVars>>

\* run_query.py lines 243-263
R_Execute ==
    /\ script = "run_query" /\ cli_pc = "execute"
    /\ sent' = TRUE
    /\ \E answered \in BOOLEAN :
        IF answered THEN cli_pc' = "process" /\ UNCHANGED cli_exit
        ELSE CliReturn(1)
    /\ UNCHANGED <<CliRest, validation, creds_checked>>
    /\ UNCHANGED <<valVars, batchVars, decVars, buildVars>>

\* run_query.py lines 265-380: decode, save, summary
R_Process ==
    /\ script = "run_query" /\ cli_pc = "process"
    /\ \E saved \in BOOLEAN : CliReturn(IF saved THEN 0 ELSE 1)
    /\ UNCHANGED <<CliRest, validation, creds_checked, sent>>
    /\ UNCHANGED <<valVars, batchVars, decVars, buildVars>>

CliNext ==
    \/ Q_Setup
    \/ Q_RequirePayload
    \/ Q_Load
    \/ Q_Validate
    \/ Q_ValidateOnly
    \/ Q_Credentials
    \/ Q_Execute
    \/ Q_Process
    \/ R_Load
    \/ R_SavePayload
    \/ R_Validate
    \/ R_ValidateOnly
    \/ R_DebugConfig
    \/ R_Execute
    \/ R_Process

\* The validator of the script that runs.
CliValidator(payload) ==
    IF script = "query" THEN validate_payload_structure(payload)
    ELSE validate_payload(payload)

\* C8 (as stated): in both mains a payload is handed to
\* execute_vanilla_aggregate_query only after the script's validator was
\* called on it and accepted it, and with --validate-only neither the
\* credentials are looked at nor a request is made.
C8_ValidatedBeforeSent ==
    /\ sent => (validation # NotRun /\ validation.exc = "" /\ validation.ok)
    /\ sent => CliValidator(cli_payload).ok
    /\ args.validate_only => (~creds_checked /\ ~sent)

----------------------------------------------------------------------------
(* aggregate_query_vanilla.py: the query builders.  None is JNull. *)

\* create_dimension_axis without the default of lines 105-107.
create_dimension_axis_no_default(dimension_name, qualifying_path, level_ids) ==
    LET dimension_dict ==
            MkMap({<<"name", dimension_name>>,
                   <<"qualifyingPath",
                     IF PyTruthy(qualifying_path) THEN qualifying_path ELSE Absent>>})
    IN MkMap({<<"dimensionLevelSelection",
               MkMap({<<"dimension", dimension_dict>>, <<"levelIds", level_ids>>})>>})

\* lines 105-118
create_dimension_axis(dimension_name, qualifying_path, level_ids) ==
    LET ids == IF level_ids = JNull THEN JList(<<dimension_name>>) ELSE level_ids
        dimension_dict ==
            MkMap({<<"name", dimension_name>>,
                   <<"qualifyingPath",
                     IF PyTruthy(qualifying_path) THEN qualifying_path ELSE Absent>>})
    IN MkMap({<<"dimensionLevelSelection",
               MkMap({<<"dimension", dimension_dict>>, <<"levelIds", ids>>})>>})

\* [{"path": [member]} for member in members]
MemberPaths(members) ==
    JList([n \in 1..Len(members.v) |-> MkMap({<<"path", JList(<<members.v[n]>>)>>})])

\* lines 150-170
create_member_set_filter(dimension_name, included_members, excluded_members, qualifying_path) ==
    MkMap({<<"memberSet",
             MkMap({<<"dimension",
                      MkMap({<<"name", dimension_name>>,
                             <<"qualifyingPath", qualifying_path>>})>>,
                    <<"values",
                      MkMap({<<"included",
                               IF PyTruthy(included_members)
                               THEN MemberPaths(included_members) ELSE Absent>>,
                             <<"excluded",
                               IF PyTruthy(excluded_members)
                               THEN MemberPaths(excluded_members) ELSE Absent>>})>>})>>})

\* lines 188-193
create_selection_concept_filter(concept_name, qualifying_path) ==
    MkMap({<<"selectionConcept",
             MkMap({<<"name", concept_name>>, <<"qualifyingPath", qualifying_path>>})>>})

\* lines 225-234
create_time_axis(time_dimension_name, time_level_id, qualifying_path) ==
    LET dimension_dict ==
            MkMap({<<"name", time_dimension_name>>,
                   <<"qualifyingPath",
                     IF PyTruthy(qualifying_path) THEN qualifying_path ELSE Absent>>})
    IN MkMap({<<"dimensionLevelSelection",
               MkMap({<<"dimension", dimension_dict>>,
                      <<"levelIds", JList(<<time_level_id>>)>>})>>})

\* if x: d[key] = x
IfTruthy(x) == IF PyTruthy(x) THEN x ELSE Absent

\* build_vanilla_aggregate_query that adds every optional argument that is
\* not None, empty or not.
build_vanilla_aggregate_query_not_none(metric_id_arg, axes, filters, time_intervals, parameter_values, options) ==
    LET IfGiven(x) == IF x = JNull THEN Absent ELSE x IN
    IF ~PyTruthy(axes) THEN Raised("ValueError")
    ELSE MkMap({<<"query",
                  MkMap({<<"source", MkMap({<<"metric", metric_id_arg>>})>>,
                         <<"axes", axes>>,
                         <<"filters", IfGiven(filters)>>,
                         <<"timeIntervals", IfGiven(time_intervals)>>,
                         <<"parameterValues", IfGiven(parameter_values)>>})>>,
                <<"options", IfGiven(options)>>})

\* lines 268-298
build_vanilla_aggregate_query(metric_id_arg, axes, filters, time_intervals, parameter_values, options) ==
    IF ~PyTruthy(axes) THEN Raised("ValueError")
    ELSE MkMap({<<"query",
                  MkMap({<<"source", MkMap({<<"metric", metric_id_arg>>})>>,
                         <<"axes", axes>>,
                         <<"filters", IfTruthy(filters)>>,
                         <<"timeIntervals", IfTruthy(time_intervals)>>,
                         <<"parameterValues", IfTruthy(parameter_values)>>})>>,
                <<"options", IfTruthy(options)>>})

\* No builder runs.
NoBuildArgs ==
    [metric_id |-> JNull, axes |-> JNull, filters |-> JNull, time_intervals |-> JNull,
     parameter_values |-> JNull, options |-> JNull]

\* The arguments of the helpers
QualifyingPaths == {JStr("Employee"), JStr("")}
LevelIdArgs == {JNull, JList(<<>>), JList(<<JStr("Level_1")>>)}
MemberArgs == {JNull, JList(<<>>), JList(<<JStr("Engineering")>>)}

\* The optional arguments of the builder: None, empty, not empty.
TimeIntervalArgs ==
    {JNull, JMap(<<>>), MkMap({<<"intervalCount", JNum(3)>>,
                                <<"dynamicDateFrom", JStr("SOURCE")>>})}
ParameterValueArgs == {JNull, JList(<<MkMap({<<"parameterId", JStr("p")>>})>>)}
OptionArgs == {JMap(<<>>), MkMap({<<"zeroVisibility", JStr("ELIMINATE")>>})}

\* axes.append(create_dimension_axis(...))
MakeDimensionAxis ==
    /\ build_pc = "assembling"
    /\ build_args.axes.t = "list"
    /\ Len(build_args.axes.v) < MaxQueryAxes
    /\ \E qp \in QualifyingPaths, l \in LevelIdArgs :
        build_args' = [build_args EXCEPT !.axes =
            JList(Append(@.v, create_dimension_axis(JStr("Function"), qp, l)))]
    /\ UNCHANGED <<build_pc, built>>
    /\ UNCHANGED <<valVars, batchVars, decVars, cliVars>>

\* axes.append(create_time_axis(...))
MakeTimeAxis ==
    /\ build_pc = "assembling"
    /\ build_args.axes.t = "list"
    /\ Len(build_args.axes.v) < MaxQueryAxes
    /\ \E qp \in {JNull, JStr("Employee")} :
        build_args' = [build_args EXCEPT !.axes =
            JList(Append(@.v, create_time_axis(JStr("Time"), JStr("FISCAL_YEAR"), qp)))]
    /\ UNCHANGED <<build_pc, built>>
    /\ UNCHANGED <<valVars, batchVars, decVars, cliVars>>

\* filters.append(create_member_set_filter(...))
MakeMemberSetFilter ==
    /\ build_pc = "assembling"
    /\ build_args.filters.t = "list"
    /\ Len(build_args.filters.v) < MaxFilters
    /\ \E inc \in MemberArgs, exc \in {JNull, JList(<<JStr("HR")>>)} :
        build_args' = [build_args EXCEPT !.filters =
            JList(Append(@.v,
                create_member_set_filter(JStr("Function"), inc, exc, JStr("Employee"))))]
    /\ UNCHANGED <<build_pc, built>>
    /\ UNCHANGED <<valVars, batchVars, decVars, cliVars>>

\* filters.append(create_selection_concept_filter(...))
MakeSelectionConceptFilter ==
    /\ build_pc = "assembling"
    /\ build_args.filters.t = "list"
    /\ Len(build_args.filters.v) < MaxFilters
    /\ build_args' = [build_args EXCEPT !.filters =
            JList(Append(@.v,
                create_selection_concept_filter(JStr("isManager"), JStr("Employee"))))]
    /\ UNCHANGED <<build_pc, built>>
    /\ UNCHANGED <<valVars, batchVars, decVars, cliVars>>

\* payload = build_vanilla_aggregate_query(metric_id, axes, filters, ...)
BuildQuery ==
    /\ build_pc = "assembling"
    /\ built' = build_vanilla_aggregate_query(
                    build_args.metric_id, build_args.axes, build_args.filters,
                    build_args.time_intervals, build_args.parameter_values,
                    build_args.options)
    /\ build_pc' = "built"
    /\ UNCHANGED build_args
    /\ UNCHANGED <<valVars, batchVars, decVars, cliVars>>

\* query.validate_payload_structure(payload) on the payload built
ValidateBuiltStructure ==
    /\ build_pc = "built"
    /\ built.t # "raise"
    /\ result_structure = NotRun
    /\ result_structure' = validate_payload_structure(built)
    /\ UNCHANGED <<val_payload, result_run>>
    /\ UNCHANGED <<batchVars, decVars, cliVars, buildVars>>

\* run_query.validate_payload(payload) on the payload built
ValidateBuiltRun ==
    /\ build_pc = "built"
    /\ built.t # "raise"
    /\ result_run = NotRun
    /\ result_run' = validate_payload(built)
    /\ UNCHANGED <<val_payload, result_structure>>
    /\ UNCHANGED <<batchVars, decVars, cliVars, buildVars>>

BuildNext ==
    \/ MakeDimensionAxis
    \/ MakeTimeAxis
    \/ MakeMemberSetFilter
    \/ MakeSelectionConceptFilter
    \/ BuildQuery
    \/ ValidateBuiltStructure
    \/ ValidateBuiltRun

\* The argument is None or empty.
EmptyArg(x) == x \in {JNull, JList(<<>>), JMap(<<>>)}

\* C21: the builder raises ValueError exactly when axes is None or empty;
\* otherwise the payload has query.source = {"metric": metric_id}, query.axes
\* = the axes given, in their order, each of filters, timeIntervals and
\* parameterValues under query, and options at the top, exactly when the
\* argument is not empty and then equal to it, and no other key.
C21_BuildQuery ==
    build_pc = "built" =>
        IF EmptyArg(build_args.axes)
        THEN built = Raised("ValueError")
        ELSE /\ built.t = "map"
             /\ DOMAIN built.v =
                    {"query"} \cup (IF EmptyArg(build_args.options) THEN {} ELSE {"options"})
             /\ ~EmptyArg(build_args.options) => built.v["options"] = build_args.options
             /\ LET query == built.v["query"] IN
                /\ query.t = "map"
                /\ DOMAIN query.v =
                        {"source", "axes"}
                        \cup (IF EmptyArg(build_args.filters) THEN {} ELSE {"filters"})
                        \cup (IF EmptyArg(build_args.time_intervals)
                              THEN {} ELSE {"timeIntervals"})
                        \cup (IF EmptyArg(build_args.parameter_values)
                              THEN {} ELSE {"parameterValues"})
                /\ query.v["source"].t = "map"
                /\ DOMAIN query.v["source"].v = {"metric"}
                /\ query.v["source"].v["metric"] = build_args.metric_id
                /\ query.v["axes"] = build_args.axes
                /\ ~EmptyArg(build_args.filters) =>
                        query.v["filters"] = build_args.filters
                /\ ~EmptyArg(build_args.time_intervals) =>
                        query.v["timeIntervals"] = build_args.time_intervals
                /\ ~EmptyArg(build_args.parameter_values) =>
                        query.v["parameterValues"] = build_args.parameter_values

\* A payload was built from two different axes, a filter, parameter values
\* and options, with an empty time_intervals that is left out.
C21_Witness ==
    /\ build_pc = "built"
    /\ built.t = "map"
    /\ Len(build_args.axes.v) = MaxQueryAxes
    /\ build_args.axes.v[1] # build_args.axes.v[MaxQueryAxes]
    /\ build_args.time_intervals = JMap(<<>>)
    /\ DOMAIN built.v = {"query", "options"}
    /\ DOMAIN built.v["query"].v = {"source", "axes", "filters", "parameterValues"}

\* The validator accepted the payload with an empty error list.
Accepted == [exc |-> "", ok |-> TRUE, errors |-> <<>>]

\* A payload was built without time_intervals from axes whose level_ids were
\* omitted or not empty.
BuiltFromHelpers ==
    /\ build_pc = "built"
    /\ built.t = "map"
    /\ EmptyArg(build_args.time_intervals)
    /\ \A n \in 1..Len(build_args.axes.v) :
        build_args.axes.v[n].v["dimensionLevelSelection"].v["levelIds"] # JList(<<>>)

\* C29: a payload built without time_intervals from axes of
\* create_dimension_axis or create_time_axis (level_ids omitted or not empty)
\* and filters of create_member_set_filter or create_selection_concept_filter
\* is accepted with an empty error list by each validator that runs on it;
\* each of its axes has the one key dimensionLevelSelection and each of its
\* filters exactly one of memberSet and selectionConcept.
C29_RoundTrip ==
    BuiltFromHelpers =>
        /\ result_structure # NotRun => result_structure = Accepted
        /\ result_run # NotRun => result_run = Accepted
        /\ \A n \in 1..Len(built.v["query"].v["axes"].v) :
            DOMAIN built.v["query"].v["axes"].v[n].v = {"dimensionLevelSelection"}
        /\ "filters" \in DOMAIN built.v["query"].v =>
            \A n \in 1..Len(built.v["query"].v["filters"].v) :
                DOMAIN built.v["query"].v["filters"].v[n].v
                    \in {{"memberSet"}, {"selectionConcept"}}

\* Both validators accepted a payload built from a dimension axis with its
\* default level, a time axis, and a member-set filter.
C29_Witness ==
    /\ BuiltFromHelpers
    /\ result_structure = Accepted
    /\ result_run = Accepted
    /\ built.v["query"].v["axes"] =
            JList(<<create_dimension_axis(JStr("Function"), JStr("Employee"), JNull),
                    create_time_axis(JStr("Time"), JStr("FISCAL_YEAR"), JNull)>>)
    /\ "filters" \in DOMAIN built.v["query"].v
    /\ "memberSet" \in DOMAIN built.v["query"].v["filters"].v[1].v

----------------------------------------------------------------------------
(* Specifications.  Each runs one entry point; the state of the others stays
   at rest. *)

NoArgs == [setup |-> FALSE, payload |-> FALSE, validate_only |-> FALSE,
           verbose |-> FALSE, debug |-> FALSE, save_payload |-> FALSE]

\* run_multi_metric.main is entered with some configuration file content.
BatchInit ==
    /\ val_payload = JMap(<<>>)
    /\ result_structure = NotRun
    /\ result_run = NotRun
    /\ metrics \in SeqsUpTo(MetricEntries, MaxMetrics)
    /\ batch_pc = "check_config"
    /\ bi = 0
    /\ dataframes = <<>>
    /\ dispatched = <<>>
    /\ outcomes = <<>>
    /\ merged = <<>>
    /\ out_written = FALSE
    /\ batch_error = 0
    /\ batch_exit = -1
    /\ response = JMap(<<>>)
    /\ has_cells = FALSE
    /\ cells_len = 0
    /\ metric_hint = JNull
    /\ metric_id = JNull
    /\ dec_pc = "idle"
    /\ dec_exc = NoException
    /\ dimension_names = <<>>
    /\ measures_axis_idx = -1
    /\ axis_positions = <<>>
    /\ cells_done = 0
    /\ cell = JNull
    /\ row = <<>>
    /\ nrows = 0
    /\ columns = <<>>
    /\ again = 0
    /\ calls = 0
    /\ cells = <<>>
    /\ first_result = NoResult
    /\ script = "none"
    /\ args = NoArgs
    /\ cli_payload = JMap(<<>>)
    /\ cli_pc = "idle"
    /\ validation = NotRun
    /\ creds_checked = FALSE
    /\ sent = FALSE
    /\ cli_exit = -1
    /\ build_args = NoBuildArgs
    /\ build_pc = "idle"
    /\ built = JNull

SpecBatch == BatchInit /\ [][BatchNext]_vars

\* A validator is called on some payload.
ValInit ==
    /\ val_payload \in Payloads
    /\ result_structure = NotRun
    /\ result_run = NotRun
    /\ metrics = <<>>
    /\ batch_pc = "idle"
    /\ bi = 0
    /\ dataframes = <<>>
    /\ dispatched = <<>>
    /\ outcomes = <<>>
    /\ merged = <<>>
    /\ out_written = FALSE
    /\ batch_error = 0
    /\ batch_exit = -1
    /\ response = JMap(<<>>)
    /\ has_cells = FALSE
    /\ cells_len = 0
    /\ metric_hint = JNull
    /\ metric_id = JNull
    /\ dec_pc = "idle"
    /\ dec_exc = NoException
    /\ dimension_names = <<>>
    /\ measures_axis_idx = -1
    /\ axis_positions = <<>>
    /\ cells_done = 0
    /\ cell = JNull
    /\ row = <<>>
    /\ nrows = 0
    /\ columns = <<>>
    /\ again = 0
    /\ calls = 0
    /\ cells = <<>>
    /\ first_result = NoResult
    /\ script = "none"
    /\ args = NoArgs
    /\ cli_payload = JMap(<<>>)
    /\ cli_pc = "idle"
    /\ validation = NotRun
    /\ creds_checked = FALSE
    /\ sent = FALSE
    /\ cli_exit = -1
    /\ build_args = NoBuildArgs
    /\ build_pc = "idle"
    /\ built = JNull

SpecValidate == ValInit /\ [][ValNext]_vars

\* convert_vanilla_response_to_dataframe(response, metric_id) is called.
DecodeInit ==
    /\ val_payload = JMap(<<>>)
    /\ result_structure = NotRun
    /\ result_run = NotRun
    /\ metrics = <<>>
    /\ batch_pc = "idle"
    /\ bi = 0
    /\ dataframes = <<>>
    /\ dispatched = <<>>
    /\ outcomes = <<>>
    /\ merged = <<>>
    /\ out_written = FALSE
    /\ batch_error = 0
    /\ batch_exit = -1
    /\ response \in Responses
    /\ has_cells \in BOOLEAN
    /\ cells_len \in IF has_cells THEN 0..MaxCells ELSE {0}
    /\ metric_hint \in MetricHints
    /\ metric_id = metric_hint
    /\ dec_pc = "start"
    /\ dec_exc = NoException
    /\ dimension_names = <<>>
    /\ measures_axis_idx = -1
    /\ axis_positions = <<>>
    /\ cells_done = 0
    /\ cell = JNull
    /\ row = <<>>
    /\ nrows = 0
    /\ columns = <<>>
    /\ again = 0
    /\ calls = 0
    /\ cells = <<>>
    /\ first_result = NoResult
    /\ script = "none"
    /\ args = NoArgs
    /\ cli_payload = JMap(<<>>)
    /\ cli_pc = "idle"
    /\ validation = NotRun
    /\ creds_checked = FALSE
    /\ sent = FALSE
    /\ cli_exit = -1
    /\ build_args = NoBuildArgs
    /\ build_pc = "idle"
    /\ built = JNull

SpecDecode == DecodeInit /\ [][DecodeNext]_vars

\* convert_vanilla_response_to_dataframe is called, and called once more with
\* the same arguments when the call has ended.
DecodeTwiceInit ==
    /\ val_payload = JMap(<<>>)
    /\ result_structure = NotRun
    /\ result_run = NotRun
    /\ metrics = <<>>
    /\ batch_pc = "idle"
    /\ bi = 0
    /\ dataframes = <<>>
    /\ dispatched = <<>>
    /\ outcomes = <<>>
    /\ merged = <<>>
    /\ out_written = FALSE
    /\ batch_error = 0
    /\ batch_exit = -1
    /\ response \in RepeatResponses
    /\ has_cells \in BOOLEAN
    /\ cells_len \in IF has_cells THEN 0..MaxCells ELSE {0}
    /\ metric_hint \in MetricHints
    /\ metric_id = metric_hint
    /\ dec_pc = "start"
    /\ dec_exc = NoException
    /\ dimension_names = <<>>
    /\ measures_axis_idx = -1
    /\ axis_positions = <<>>
    /\ cells_done = 0
    /\ cell = JNull
    /\ row = <<>>
    /\ nrows = 0
    /\ columns = <<>>
    /\ again = 1
    /\ calls = 0
    /\ cells = <<>>
    /\ first_result = NoResult
    /\ script = "none"
    /\ args = NoArgs
    /\ cli_payload = JMap(<<>>)
    /\ cli_pc = "idle"
    /\ validation = NotRun
    /\ creds_checked = FALSE
    /\ sent = FALSE
    /\ cli_exit = -1
    /\ build_args = NoBuildArgs
    /\ build_pc = "idle"
    /\ built = JNull

SpecDecodeTwice == DecodeTwiceInit /\ [][DecodeTwiceNext]_vars

\* query.main or run_query.main is entered with some command line and some
\* payload file.
CliInit ==
    /\ val_payload = JMap(<<>>)
    /\ result_structure = NotRun
    /\ result_run = NotRun
    /\ metrics = <<>>
    /\ batch_pc = "idle"
    /\ bi = 0
    /\ dataframes = <<>>
    /\ dispatched = <<>>
    /\ outcomes = <<>>
    /\ merged = <<>>
    /\ out_written = FALSE
    /\ batch_error = 0
    /\ batch_exit = -1
    /\ response = JMap(<<>>)
    /\ has_cells = FALSE
    /\ cells_len = 0
    /\ metric_hint = JNull
    /\ metric_id = JNull
    /\ dec_pc = "idle"
    /\ dec_exc = NoException
    /\ dimension_names = <<>>
    /\ measures_axis_idx = -1
    /\ axis_positions = <<>>
    /\ cells_done = 0
    /\ cell = JNull
    /\ row = <<>>
    /\ nrows = 0
    /\ columns = <<>>
    /\ again = 0
    /\ calls = 0
    /\ cells = <<>>
    /\ first_result = NoResult
    /\ script \in {"query", "run_query"}
    /\ args \in IF script = "query" THEN QueryArgs ELSE RunQueryArgs
    /\ cli_payload \in CliPayloads
    /\ cli_pc = "start"
    /\ validation = NotRun
    /\ creds_checked = FALSE
    /\ sent = FALSE
    /\ cli_exit = -1
    /\ build_args = NoBuildArgs
    /\ build_pc = "idle"
    /\ built = JNull

SpecCli == CliInit /\ [][CliNext]_vars

\* The query builders, then both validators on the payload built.
BuildInit ==
    /\ val_payload = JMap(<<>>)
    /\ result_structure = NotRun
    /\ result_run = NotRun
    /\ metrics = <<>>
    /\ batch_pc = "idle"
    /\ bi = 0
    /\ dataframes = <<>>
    /\ dispatched = <<>>
    /\ outcomes = <<>>
    /\ merged = <<>>
    /\ out_written = FALSE
    /\ batch_error = 0
    /\ batch_exit = -1
    /\ response = JMap(<<>>)
    /\ has_cells = FALSE
    /\ cells_len = 0
    /\ metric_hint = JNull
    /\ metric_id = JNull
    /\ dec_pc = "idle"
    /\ dec_exc = NoException
    /\ dimension_names = <<>>
    /\ measures_axis_idx = -1
    /\ axis_positions = <<>>
    /\ cells_done = 0
    /\ cell = JNull
    /\ row = <<>>
    /\ nrows = 0
    /\ columns = <<>>
    /\ again = 0
    /\ calls = 0
    /\ cells = <<>>
    /\ first_result = NoResult
    /\ script = "none"
    /\ args = NoArgs
    /\ cli_payload = JMap(<<>>)
    /\ cli_pc = "idle"
    /\ validation = NotRun
    /\ creds_checked = FALSE
    /\ sent = FALSE
    /\ cli_exit = -1
    /\ build_args \in
        [metric_id : {JStr("employeeCount")},
         axes : {JNull, JList(<<>>)},
         filters : {JNull, JList(<<>>)},
         time_intervals : TimeIntervalArgs,
         parameter_values : ParameterValueArgs,
         options : OptionArgs]
    /\ build_pc = "assembling"
    /\ built = JNull

SpecBuild == BuildInit /\ [][BuildNext]_vars

====
